---- MODULE Spec2Model ----
(***************************************************************************)
(* mcp-wallet-signer as a state machine.                                   *)
(*                                                                         *)
(* The pending-request registry (pending-store.ts) keeps two maps,         *)
(* `pending` (id -> entry) and `timeouts` (id -> timer handle); the        *)
(* JavaScript runtime keeps the table of armed timers and the state of     *)
(* every promise handed out by create.  The HTTP bridge (http-server.ts)   *)
(* answers the browser page: each request is handled in one step and its   *)
(* response is recorded.  The tool handlers (mcp-server.ts) create a       *)
(* request, open the browser and await the request's promise; each await   *)
(* is a point where other tasks run.  `httpServer` is the module state of   *)
(* ensureServerRunning (server, serverPort and the listen calls under      *)
(* way); `page` is the approval page of one connect request                *)
(* (ConnectWallet.svelte) and the completion reports it posts.             *)
(* Requests outside /api/ are served from the asset directory              *)
(* (serveStaticFile), and getPort reads the port from the environment.     *)
(***************************************************************************)
EXTENDS Integers, Sequences, FiniteSets, TLC

\* ---------------------------------------------------------------- bounds
\* Number of distinct ids crypto.randomUUID() can hand out in one run.
MaxIds == 2
\* Number of clock ticks in one run.
MaxTicks == 2
\* Length of the texts of EVM_MCP_PORT tried exhaustively.
MaxEnvLen == 3

\* ------------------------------------------------------------- constants
REQUEST_TIMEOUT_MS == 5 * 60 * 1000

\* One clock tick is one timeout window.
TickMs == REQUEST_TIMEOUT_MS
MaxTime == MaxTicks * TickMs

\* JavaScript's undefined where a string is expected (reason?: string), and
\* where a number is expected (chainId?: number, a missed timeouts.get).
Undefined == "undefined"
UndefinedNumber == -1

Ids == 1 .. MaxIds
\* An id no create call ever returns ("non-existent" in the tests).
NonExistentId == 0
AllIds == Ids \cup {NonExistentId}

\* ------------------------------------------------------- input universes
\* chainId?: number
ChainIds == {UndefinedNumber, 1}

SendTransactionParams ==
  { [to |-> "0xRecipient", value |-> "1000000000000000000", chainId |-> 1] }

SignMessageParams ==
  { [message |-> "Hello, world!", chainId |-> 1] }

SignTypedDataParams ==
  { [domain |-> [name |-> "Test", version |-> "1", chainId |-> 1],
     types |-> [Mail |-> << [name |-> "contents", type |-> "string"] >>],
     primaryType |-> "Mail",
     message |-> [contents |-> "Hello"]] }

\* RequestResult = SuccessResult | ErrorResult
SuccessResult(r) == [success |-> TRUE, result |-> r]
ErrorResult(e) == [success |-> FALSE, error |-> e]
RequestResults == { SuccessResult("0x1234"), ErrorResult("User rejected") }

\* reason?: string
Reasons == { Undefined, "", "Cancelled by test" }

TimeoutMessage == "Request timed out after 5 minutes"
DefaultCancelMessage == "Request cancelled"

\* ----------------------------------------------------------------- state
VARIABLES
  pending,     \* PendingStore.pending : Map<string, PendingEntry>
  timeouts,    \* PendingStore.timeouts : Map<string, number>
  armed,       \* runtime timer table: handle -> [id, deadline] of the closure
  nextTimer,   \* next handle setTimeout returns
  promise,     \* state of the promise created for each id
  settleCalls, \* how often resolve/reject was called on each promise
  firstOp,     \* the first of complete/cancel/timeout that ran on each id
  wins,        \* how many of complete/cancel/timeout succeeded on each id
  lastCall,    \* the last call of an operation and what it returned
  now,         \* Date.now()
  response,    \* the last HTTP exchange: the request and the response written
  testResults, \* http-server.ts testResults : Map<string, result>
  reactions,   \* promises that carry the then/catch of /api/test/create-request
  calls,       \* the tool calls of the run: where each handler stands
  crashed,     \* the runtime ended the process on an unhandled rejection
  httpServer,  \* http-server.ts server, serverPort and the servers started
  page         \* the browser page opened on an approval URL

vars == << pending, timeouts, armed, nextTimer, promise, settleCalls,
           firstOp, wins, lastCall, now, response, testResults, reactions,
           calls, crashed, httpServer, page >>

\* ------------------------------------------------------------ Map helpers
MapSet(m, k, v) == [x \in DOMAIN m \cup {k} |-> IF x = k THEN v ELSE m[x]]
MapDelete(m, k) == [x \in DOMAIN m \ {k} |-> m[x]]
MapGet(m, k) == IF k \in DOMAIN m THEN m[k] ELSE UndefinedNumber
EmptyMap == [x \in {} |-> UndefinedNumber]

\* { ...base, ...params }: later keys win
Spread(base, params) ==
  [k \in DOMAIN base \cup DOMAIN params |->
     IF k \in DOMAIN params THEN params[k] ELSE base[k]]

\* JavaScript truthiness of a number (timer handle) and of a string
TruthyNumber(v) == v # UndefinedNumber /\ v # 0
TruthyString(v) == v # Undefined /\ v # ""

\* ------------------------------------------------------------ promises
Unsettled == [state |-> "pending"]
NoPromise == [state |-> "none"]
Fulfilled(v) == [state |-> "fulfilled", value |-> v]
Rejected(msg) == [state |-> "rejected", message |-> msg]

\* Calling resolve/reject of a promise: only the first call settles it.
Settle(ps, p, outcome) ==
  [ps EXCEPT ![p] = IF @ = Unsettled THEN outcome ELSE @]

CountSettle(sc, p) == [sc EXCEPT ![p] = IF @ < 2 THEN @ + 1 ELSE @]

\* clearTimeout(handle)
clearTimeout(tbl, h) == MapDelete(tbl, h)

\* -------------------------------------------------------------- generateId
\* crypto.randomUUID(): a value no earlier call returned.  The ids are opaque
\* tokens, so the model names them in the order they are handed out.
generateId ==
  LET unused == { id \in Ids : promise[id] = NoPromise }
  IN { id \in unused : \A other \in unused : id <= other }

\* ------------------------------------------------------ introspection
NoRequest == [type |-> "undefined"]
get(id) == IF id \in DOMAIN pending THEN pending[id].request ELSE NoRequest
has(id) == id \in DOMAIN pending
getPendingIds == DOMAIN pending
size == Cardinality(DOMAIN pending)

\* The registry-and-runtime state an operation reads and writes.
Store == [pending |-> pending, timeouts |-> timeouts, armed |-> armed,
          promise |-> promise, settleCalls |-> settleCalls]

\* ---------------------------------------------- faulty variants of complete
\* complete that resolves the promise but forgets this.pending.delete(id)
complete_keepsEntry(id, result) ==
  IF id \notin DOMAIN pending
  THEN [ret |-> FALSE, store |-> Store]
  ELSE LET entry == pending[id]
           timeoutId == MapGet(timeouts, id)
       IN [ret |-> TRUE,
           store |->
             [pending |-> pending,
              timeouts |-> IF TruthyNumber(timeoutId) THEN MapDelete(timeouts, id)
                           ELSE timeouts,
              armed |-> IF TruthyNumber(timeoutId) THEN clearTimeout(armed, timeoutId)
                        ELSE armed,
              promise |-> Settle(promise, entry.promise, Fulfilled(result)),
              settleCalls |-> CountSettle(settleCalls, entry.promise)]]

\* complete that rejects the promise when the result is an ErrorResult
complete_rejectsFailure(id, result) ==
  IF id \notin DOMAIN pending
  THEN [ret |-> FALSE, store |-> Store]
  ELSE LET entry == pending[id]
           timeoutId == MapGet(timeouts, id)
       IN [ret |-> TRUE,
           store |->
             [pending |-> MapDelete(pending, id),
              timeouts |-> IF TruthyNumber(timeoutId) THEN MapDelete(timeouts, id)
                           ELSE timeouts,
              armed |-> IF TruthyNumber(timeoutId) THEN clearTimeout(armed, timeoutId)
                        ELSE armed,
              promise |-> Settle(promise, entry.promise,
                                 IF result.success THEN Fulfilled(result)
                                 ELSE Rejected(result.error)),
              settleCalls |-> CountSettle(settleCalls, entry.promise)]]

\* complete that reports success although no entry was found
complete_trueWhenAbsent(id, result) ==
  IF id \notin DOMAIN pending
  THEN [ret |-> TRUE, store |-> Store]
  ELSE LET entry == pending[id]
           timeoutId == MapGet(timeouts, id)
       IN [ret |-> TRUE,
           store |->
             [pending |-> MapDelete(pending, id),
              timeouts |-> IF TruthyNumber(timeoutId) THEN MapDelete(timeouts, id)
                           ELSE timeouts,
              armed |-> IF TruthyNumber(timeoutId) THEN clearTimeout(armed, timeoutId)
                        ELSE armed,
              promise |-> Settle(promise, entry.promise, Fulfilled(result)),
              settleCalls |-> CountSettle(settleCalls, entry.promise)]]

\* complete that clears the timer but forgets this.timeouts.delete(id)
complete_keepsHandle(id, result) ==
  IF id \notin DOMAIN pending
  THEN [ret |-> FALSE, store |-> Store]
  ELSE LET entry == pending[id]
           timeoutId == MapGet(timeouts, id)
       IN [ret |-> TRUE,
           store |->
             [pending |-> MapDelete(pending, id),
              timeouts |-> timeouts,
              armed |-> IF TruthyNumber(timeoutId) THEN clearTimeout(armed, timeoutId)
                        ELSE armed,
              promise |-> Settle(promise, entry.promise, Fulfilled(result)),
              settleCalls |-> CountSettle(settleCalls, entry.promise)]]

\* ------------------------------------------------------------- complete
complete(id, result) ==
  IF id \notin DOMAIN pending
  THEN [ret |-> FALSE, store |-> Store]
  ELSE LET entry == pending[id]
           timeoutId == MapGet(timeouts, id)
       IN [ret |-> TRUE,
           store |->
             [pending |-> MapDelete(pending, id),
              timeouts |-> IF TruthyNumber(timeoutId) THEN MapDelete(timeouts, id)
                           ELSE timeouts,
              armed |-> IF TruthyNumber(timeoutId) THEN clearTimeout(armed, timeoutId)
                        ELSE armed,
              promise |-> Settle(promise, entry.promise, Fulfilled(result)),
              settleCalls |-> CountSettle(settleCalls, entry.promise)]]

\* ------------------------------------------------ faulty variants of cancel
\* cancel that leaves the timer armed (no clearTimeout)
cancel_leavesTimerArmed(id, reason) ==
  IF id \notin DOMAIN pending
  THEN [ret |-> FALSE, store |-> Store]
  ELSE LET entry == pending[id]
           timeoutId == MapGet(timeouts, id)
           message == IF TruthyString(reason) THEN reason ELSE DefaultCancelMessage
       IN [ret |-> TRUE,
           store |->
             [pending |-> MapDelete(pending, id),
              timeouts |-> IF TruthyNumber(timeoutId) THEN MapDelete(timeouts, id)
                           ELSE timeouts,
              armed |-> armed,
              promise |-> Settle(promise, entry.promise, Rejected(message)),
              settleCalls |-> CountSettle(settleCalls, entry.promise)]]

\* cancel that deletes the entry but never calls reject
cancel_removesOnly(id, reason) ==
  IF id \notin DOMAIN pending
  THEN [ret |-> FALSE, store |-> Store]
  ELSE LET timeoutId == MapGet(timeouts, id)
       IN [ret |-> TRUE,
           store |->
             [pending |-> MapDelete(pending, id),
              timeouts |-> IF TruthyNumber(timeoutId) THEN MapDelete(timeouts, id)
                           ELSE timeouts,
              armed |-> IF TruthyNumber(timeoutId) THEN clearTimeout(armed, timeoutId)
                        ELSE armed,
              promise |-> promise,
              settleCalls |-> settleCalls]]

\* cancel that clears every armed timer, not only the one of its id
cancel_clearsEveryTimer(id, reason) ==
  IF id \notin DOMAIN pending
  THEN [ret |-> FALSE, store |-> Store]
  ELSE LET entry == pending[id]
           message == IF TruthyString(reason) THEN reason ELSE DefaultCancelMessage
       IN [ret |-> TRUE,
           store |->
             [pending |-> MapDelete(pending, id),
              timeouts |-> EmptyMap,
              armed |-> EmptyMap,
              promise |-> Settle(promise, entry.promise, Rejected(message)),
              settleCalls |-> CountSettle(settleCalls, entry.promise)]]

\* cancel that always rejects with the default message
cancel_ignoresReason(id, reason) ==
  IF id \notin DOMAIN pending
  THEN [ret |-> FALSE, store |-> Store]
  ELSE LET entry == pending[id]
           timeoutId == MapGet(timeouts, id)
       IN [ret |-> TRUE,
           store |->
             [pending |-> MapDelete(pending, id),
              timeouts |-> IF TruthyNumber(timeoutId) THEN MapDelete(timeouts, id)
                           ELSE timeouts,
              armed |-> IF TruthyNumber(timeoutId) THEN clearTimeout(armed, timeoutId)
                        ELSE armed,
              promise |-> Settle(promise, entry.promise,
                                 Rejected(DefaultCancelMessage)),
              settleCalls |-> CountSettle(settleCalls, entry.promise)]]

\* --------------------------------------------------------------- cancel
cancel(id, reason) ==
  IF id \notin DOMAIN pending
  THEN [ret |-> FALSE, store |-> Store]
  ELSE LET entry == pending[id]
           timeoutId == MapGet(timeouts, id)
           message == IF TruthyString(reason) THEN reason ELSE DefaultCancelMessage
       IN [ret |-> TRUE,
           store |->
             [pending |-> MapDelete(pending, id),
              timeouts |-> IF TruthyNumber(timeoutId) THEN MapDelete(timeouts, id)
                           ELSE timeouts,
              armed |-> IF TruthyNumber(timeoutId) THEN clearTimeout(armed, timeoutId)
                        ELSE armed,
              promise |-> Settle(promise, entry.promise, Rejected(message)),
              settleCalls |-> CountSettle(settleCalls, entry.promise)]]

\* ------------------------------------ faulty variants of the timeout callback
\* callback that forgets this.timeouts.delete(request.id)
timeoutCallback_keepsHandle(id, p, tbl) ==
  IF id \in DOMAIN pending
  THEN [took |-> TRUE,
        store |->
          [pending |-> MapDelete(pending, id),
           timeouts |-> timeouts,
           armed |-> tbl,
           promise |-> Settle(promise, p, Rejected(TimeoutMessage)),
           settleCalls |-> CountSettle(settleCalls, p)]]
  ELSE [took |-> FALSE, store |-> [Store EXCEPT !.armed = tbl]]

\* callback that rejects the promise but forgets this.pending.delete(request.id)
timeoutCallback_keepsEntry(id, p, tbl) ==
  IF id \in DOMAIN pending
  THEN [took |-> TRUE,
        store |->
          [pending |-> pending,
           timeouts |-> MapDelete(timeouts, id),
           armed |-> tbl,
           promise |-> Settle(promise, p, Rejected(TimeoutMessage)),
           settleCalls |-> CountSettle(settleCalls, p)]]
  ELSE [took |-> FALSE, store |-> [Store EXCEPT !.armed = tbl]]

\* ------------------------------------------------- the timeout callback
\* The closure setTimeout was given in create, for the request `id` whose
\* promise is `p`; `tbl` is the timer table at the time the closure runs.
timeoutCallback(id, p, tbl) ==
  IF id \in DOMAIN pending
  THEN [took |-> TRUE,
        store |->
          [pending |-> MapDelete(pending, id),
           timeouts |-> MapDelete(timeouts, id),
           armed |-> tbl,
           promise |-> Settle(promise, p, Rejected(TimeoutMessage)),
           settleCalls |-> CountSettle(settleCalls, p)]]
  ELSE [took |-> FALSE, store |-> [Store EXCEPT !.armed = tbl]]

\* create that stores the entry but never schedules the timeout
create_neverArmsTimer(request) ==
  [id |-> request.id,
   store |->
     [pending |-> MapSet(pending, request.id,
                         [request |-> request, promise |-> request.id]),
      timeouts |-> timeouts,
      armed |-> armed,
      promise |-> [promise EXCEPT ![request.id] = Unsettled],
      settleCalls |-> settleCalls]]

\* ---------------------------------------------------------------- create
create(request) ==
  LET timeoutId == nextTimer
  IN [id |-> request.id,
      store |->
        [pending |-> MapSet(pending, request.id,
                            [request |-> request, promise |-> request.id]),
         timeouts |-> MapSet(timeouts, request.id, timeoutId),
         armed |-> MapSet(armed, timeoutId,
                          [id |-> request.id, promise |-> request.id,
                           deadline |-> now + REQUEST_TIMEOUT_MS]),
         promise |-> [promise EXCEPT ![request.id] = Unsettled],
         settleCalls |-> settleCalls]]

\* createConnectRequest that drops its chainId argument
createConnectRequest_dropsChainId(id, chainId) ==
  create([id |-> id, type |-> "connect", chainId |-> UndefinedNumber,
          createdAt |-> now])

createConnectRequest(id, chainId) ==
  create([id |-> id, type |-> "connect", chainId |-> chainId,
          createdAt |-> now])

createSendTransactionRequest(id, params) ==
  create(Spread([id |-> id, type |-> "send_transaction", createdAt |-> now],
                params))

createSignMessageRequest(id, params) ==
  create(Spread([id |-> id, type |-> "sign_message", createdAt |-> now],
                params))

createSignTypedDataRequest(id, params) ==
  create(Spread([id |-> id, type |-> "sign_typed_data", createdAt |-> now],
                params))

\* ---------------------------------------------------------------- actions
\* The reactions attached by /api/test/create-request,
\*   promise.then(result => testResults.set(id, result))
\*          .catch(err => testResults.set(id, {success: false, error: err.message})),
\* run as microtasks of the task that settles the promise.
RecordedOutcome(p) ==
  IF p.state = "fulfilled" THEN p.value
  ELSE [success |-> FALSE, error |-> p.message]

\* reactions that have not run when the next request is handled
Microtasks_notYetRun(ps, rs) == testResults

Microtasks(ps, rs) ==
  LET settled == { id \in rs : ps[id].state \in {"fulfilled", "rejected"} }
  IN [id \in DOMAIN testResults \cup settled |->
        IF id \in DOMAIN testResults THEN testResults[id]
        ELSE RecordedOutcome(ps[id])]

\* A promise is rejected while no rejection handler is attached to it: the
\* tool handler that holds it is still inside `await openBrowser(url)` and
\* has not reached `await promise`.  The runtime reports the rejection as
\* unhandled when the task ends, which terminates the process.
UnhandledRejection(ps) ==
  \E k \in DOMAIN calls :
    /\ calls[k].pc = "opening"
    /\ promise[calls[k].id] = Unsettled
    /\ ps[calls[k].id].state = "rejected"

\* http-server.ts `let server = null; let serverPort = null;`, with the
\* servers the process has created and told to listen, the ones that are
\* bound to the port, and whether an 'error' event of a server found no
\* listener (an uncaught exception, which ends the process).
NullServer == 0
NullPort == 0
NoServer == [server |-> NullServer, serverPort |-> NullPort, started |-> {},
             listening |-> {}, uncaught |-> FALSE]

\* No page has been opened.
NoPage == [status |-> "closed"]

\* The process is running.
Alive == ~crashed /\ ~httpServer.uncaught

Install(s) ==
  /\ Alive
  /\ crashed' = UnhandledRejection(s.promise)
  /\ pending' = s.pending
  /\ timeouts' = s.timeouts
  /\ armed' = s.armed
  /\ promise' = s.promise
  /\ settleCalls' = s.settleCalls
  /\ testResults' = Microtasks(s.promise, reactions)

NoOp == [op |-> "none"]

\* A tool call that has not been made.
NotCalled == [pc |-> "none"]

\* No HTTP request has been handled yet.
NoExchange == [req |-> [method |-> "none"]]

\* --------------------------------------------------- introspection calls
\* A call of get(id), has(id), size or getPendingIds(): what it returns and
\* the store it leaves.  None of the four assigns to a field.
IntrospectionOps == {"get", "has", "size", "getPendingIds"}

\* introspection whose get removes the entry it returns
Introspection_getConsumes(op, id) ==
  [ret |-> CASE op = "get" -> get(id)
             [] op = "has" -> has(id)
             [] op = "size" -> size
             [] op = "getPendingIds" -> getPendingIds,
   store |-> IF op = "get" /\ id \in DOMAIN pending
             THEN [Store EXCEPT !.pending = MapDelete(pending, id)]
             ELSE Store]

Introspection(op, id) ==
  [ret |-> CASE op = "get" -> get(id)
             [] op = "has" -> has(id)
             [] op = "size" -> size
             [] op = "getPendingIds" -> getPendingIds,
   store |-> Store]

Introspect ==
  \E op \in IntrospectionOps, id \in AllIds :
    LET r == Introspection(op, id) IN
      /\ op \in {"size", "getPendingIds"} => id = NonExistentId
      /\ Install(r.store)
      /\ lastCall' = [op |-> op, id |-> id, ret |-> r.ret]
      /\ UNCHANGED << nextTimer, firstOp, wins, now, response, reactions,
                      calls, httpServer, page >>


\* Bookkeeping of a terminal attempt (complete, cancel or timeout) on id.
NoteAttempt(id, op, won) ==
  /\ firstOp' = IF id \in Ids /\ promise[id] # NoPromise /\ firstOp[id] = NoOp
                THEN [firstOp EXCEPT ![id] = op]
                ELSE firstOp
  /\ wins' = IF id \in Ids /\ won
             THEN [wins EXCEPT ![id] = IF @ < 2 THEN @ + 1 ELSE @]
             ELSE wins

Registered(r) ==
  /\ now + REQUEST_TIMEOUT_MS <= MaxTime
  /\ Install(r.store)
  /\ nextTimer' = nextTimer + 1
  /\ lastCall' = [op |-> "create", id |-> r.id, ret |-> TRUE]
  /\ UNCHANGED << firstOp, wins, now, response, reactions, page >>

Created(r) == Registered(r) /\ UNCHANGED << calls, httpServer >>

CreateConnectRequest ==
  \E id \in generateId, chainId \in ChainIds :
    Created(createConnectRequest(id, chainId))

CreateSendTransactionRequest ==
  \E id \in generateId, params \in SendTransactionParams :
    Created(createSendTransactionRequest(id, params))

CreateSignMessageRequest ==
  \E id \in generateId, params \in SignMessageParams :
    Created(createSignMessageRequest(id, params))

CreateSignTypedDataRequest ==
  \E id \in generateId, params \in SignTypedDataParams :
    Created(createSignTypedDataRequest(id, params))

CompleteWith(id, result) ==
  LET r == complete(id, result) IN
    /\ Install(r.store)
    /\ NoteAttempt(id, [op |-> "complete", result |-> result], r.ret)
    /\ lastCall' = [op |-> "complete", id |-> id, ret |-> r.ret]
    /\ UNCHANGED << nextTimer, now, response, reactions, calls, httpServer,
                    page >>

Complete == \E id \in AllIds, result \in RequestResults : CompleteWith(id, result)

CancelWith(id, reason) ==
  LET r == cancel(id, reason) IN
    /\ Install(r.store)
    /\ NoteAttempt(id, [op |-> "cancel", reason |-> reason], r.ret)
    /\ lastCall' = [op |-> "cancel", id |-> id, ret |-> r.ret]
    /\ UNCHANGED << nextTimer, now, response, reactions, calls, httpServer,
                    page >>

Cancel == \E id \in AllIds, reason \in Reasons : CancelWith(id, reason)

\* The runtime runs the callback of an armed timer whose delay has elapsed;
\* the timer is one-shot and leaves the timer table when it runs.
TimeoutFiresOn(h) ==
  /\ h \in DOMAIN armed
  /\ now >= armed[h].deadline
  /\ LET t == armed[h]
         r == timeoutCallback(t.id, t.promise, MapDelete(armed, h)) IN
       /\ Install(r.store)
       /\ NoteAttempt(t.id, [op |-> "timeout"], r.took)
       /\ lastCall' = [op |-> "timeout", id |-> t.id, ret |-> r.took]
  /\ UNCHANGED << nextTimer, now, response, reactions, calls, httpServer,
                    page >>

TimeoutFires == \E h \in DOMAIN armed : TimeoutFiresOn(h)

Tick ==
  /\ now + TickMs <= MaxTime
  /\ now' = now + TickMs
  /\ UNCHANGED << pending, timeouts, armed, nextTimer, promise, settleCalls,
                  firstOp, wins, lastCall, response, testResults, reactions,
                  calls, crashed, httpServer, page >>

Init ==
  /\ pending = EmptyMap
  /\ timeouts = EmptyMap
  /\ armed = EmptyMap
  /\ nextTimer = 1
  /\ promise = [id \in Ids |-> NoPromise]
  /\ settleCalls = [id \in Ids |-> 0]
  /\ firstOp = [id \in Ids |-> NoOp]
  /\ wins = [id \in Ids |-> 0]
  /\ lastCall = [op |-> "none", id |-> NonExistentId, ret |-> FALSE]
  /\ now = 0
  /\ response = NoExchange
  /\ testResults = EmptyMap
  /\ reactions = {}
  /\ calls = [k \in Ids |-> NotCalled]
  /\ crashed = FALSE
  /\ httpServer = NoServer
  /\ page = NoPage

Next ==
  \/ CreateConnectRequest
  \/ CreateSendTransactionRequest
  \/ CreateSignMessageRequest
  \/ CreateSignTypedDataRequest
  \/ Complete
  \/ Cancel
  \/ TimeoutFires
  \/ Tick

Spec == Init /\ [][Next]_vars

\* The runtime eventually runs every timer whose delay has elapsed, and
\* the clock advances.
FairSpec == Spec /\ WF_vars(TimeoutFires) /\ WF_vars(Tick)

\* The registry with callers that inspect it between the operations.
IntrospectNext ==
  \/ CreateConnectRequest
  \/ CreateSignMessageRequest
  \/ Complete
  \/ Cancel
  \/ TimeoutFires
  \/ Tick
  \/ Introspect

IntrospectSpec == Init /\ [][IntrospectNext]_vars

\* ==================================================================== claims
\* The timer handles armed for the request id.
TimersOf(tbl, id) == { h \in DOMAIN tbl : tbl[h].id = id }

\* The outcome the promise of a request must show when `op` was the first of
\* complete, cancel and the timeout to run on it.
AgreesWith(p, op) ==
  CASE op.op = "complete" -> p = Fulfilled(op.result)
    [] op.op = "cancel" -> /\ p.state = "rejected"
                           /\ p.message # TimeoutMessage
                           /\ TruthyString(op.reason) => p.message = op.reason
    [] op.op = "timeout" -> p = Rejected(TimeoutMessage)
    [] OTHER -> p \in {NoPromise, Unsettled}

\* C1: for every created request, at most one of complete, cancel and the
\* timeout firing succeeds, the promise is settled at most once, and its
\* outcome is the one of whichever of the three ran first.
C1_AtMostOneWins ==
  \A id \in Ids :
    /\ wins[id] <= 1
    /\ settleCalls[id] <= 1
    /\ settleCalls[id] = wins[id]
    /\ AgreesWith(promise[id], firstOp[id])

\* A cancel won, and a later complete on the same id lost.
C1_Witness ==
  \E id \in Ids :
    /\ firstOp[id].op = "cancel"
    /\ lastCall = [op |-> "complete", id |-> id, ret |-> FALSE]
    /\ promise[id].state = "rejected"
    /\ wins[id] = 1

\* C2: complete(id, result) on a pending id returns true, resolves (never
\* rejects) the promise with exactly the given result, success or failure,
\* removes the entry so that has(id) is false, and cancels the timeout.
C2_CompletePending ==
  [][ \A id \in Ids, result \in RequestResults :
        (has(id) /\ CompleteWith(id, result)) =>
          /\ lastCall'.ret = TRUE
          /\ promise'[id] = Fulfilled(result)
          /\ id \notin DOMAIN pending'
          /\ id \notin DOMAIN timeouts'
          /\ TimersOf(armed', id) = {}
          /\ TimersOf(armed, id) # {} ]_vars

\* A pending request was completed with a Failure result: resolved, not rejected.
C2_Witness ==
  \E id \in Ids :
    /\ lastCall = [op |-> "complete", id |-> id, ret |-> TRUE]
    /\ promise[id] = Fulfilled(ErrorResult("User rejected"))
    /\ ~has(id)

\* C3: complete or cancel on an id without a pending entry returns false and
\* changes nothing: entries, timer handles, armed timers, size and the
\* outcome already delivered to the promise stay as they are.
C3_AbsentIsNoOp ==
  [][ \A id \in AllIds :
        (/\ ~has(id)
         /\ \/ \E result \in RequestResults : CompleteWith(id, result)
            \/ \E reason \in Reasons : CancelWith(id, reason)) =>
          /\ lastCall'.ret = FALSE
          /\ UNCHANGED << pending, timeouts, armed, promise, settleCalls >> ]_vars

\* A cancel was tried on a request that had already been completed.
C3_Witness ==
  \E id \in Ids :
    /\ lastCall = [op |-> "cancel", id |-> id, ret |-> FALSE]
    /\ promise[id].state = "fulfilled"
    /\ firstOp[id].op = "complete"

\* The original C4: the rejection message is the given reason whenever a
\* reason is given, and "Request cancelled" when none is.
C4_Original ==
  [][ \A id \in Ids, reason \in Reasons :
        (has(id) /\ CancelWith(id, reason)) =>
          /\ lastCall'.ret = TRUE
          /\ promise'[id] = Rejected(IF reason = Undefined
                                     THEN DefaultCancelMessage ELSE reason) ]_vars

\* C4 (amended): cancel(id, reason) on a pending id returns true, removes the
\* entry, cancels its timeout and rejects the promise; the message is the
\* given reason when that is a non-empty string, and "Request cancelled"
\* when no reason or the empty string is given.
C4_CancelPending ==
  [][ \A id \in Ids, reason \in Reasons :
        (has(id) /\ CancelWith(id, reason)) =>
          /\ lastCall'.ret = TRUE
          /\ promise'[id] = Rejected(IF reason \in {Undefined, ""}
                                     THEN DefaultCancelMessage ELSE reason)
          /\ id \notin DOMAIN pending'
          /\ id \notin DOMAIN timeouts'
          /\ TimersOf(armed', id) = {}
          /\ TimersOf(armed, id) # {} ]_vars

\* A pending request was cancelled with the reason "Cancelled by test".
C4_Witness ==
  \E id \in Ids :
    /\ lastCall = [op |-> "cancel", id |-> id, ret |-> TRUE]
    /\ firstOp[id] = [op |-> "cancel", reason |-> "Cancelled by test"]
    /\ promise[id] = Rejected("Cancelled by test")
    /\ ~has(id)

\* C5: when the timeout callback runs and the entry is still present, the
\* registry, the timer table and the promise end up exactly as after
\* cancel(id, "Request timed out after 5 minutes"); the callback run on an
\* id without an entry changes nothing.
C5_TimeoutIsCancel ==
  /\ [][ \A h \in DOMAIN armed :
           (TimeoutFiresOn(h) /\ has(armed[h].id)) =>
             LET id == armed[h].id
                 c == cancel(id, TimeoutMessage)
             IN /\ c.ret = TRUE
                /\ lastCall'.ret = TRUE
                /\ pending' = c.store.pending
                /\ timeouts' = c.store.timeouts
                /\ armed' = c.store.armed
                /\ promise' = c.store.promise
                /\ settleCalls' = c.store.settleCalls
                /\ promise'[id] = Rejected(TimeoutMessage) ]_vars
  /\ [](\A id \in AllIds :
          ~has(id) =>
            LET r == timeoutCallback(id, id, armed)
            IN r.took = FALSE /\ r.store = Store)

\* The timeout callback ran on a pending request: entry and handle are gone.
C5_Witness ==
  \E id \in Ids :
    /\ lastCall = [op |-> "timeout", id |-> id, ret |-> TRUE]
    /\ promise[id] = Rejected(TimeoutMessage)
    /\ ~has(id)
    /\ id \notin DOMAIN timeouts

\* C6: a pending request that neither complete nor cancel resolves is
\* rejected by its timeout, no earlier than REQUEST_TIMEOUT_MS after its
\* creation, with the timeout message, and removed; every complete on the
\* id after that returns false.
C6_TimesOut ==
  /\ \A id \in Ids :
       has(id) ~> \/ firstOp[id].op \in {"complete", "cancel"}
                  \/ /\ firstOp[id].op = "timeout"
                     /\ promise[id] = Rejected(TimeoutMessage)
                     /\ ~has(id)
  /\ [][ \A h \in DOMAIN armed :
           (TimeoutFiresOn(h) /\ has(armed[h].id)) =>
             now >= get(armed[h].id).createdAt + REQUEST_TIMEOUT_MS ]_vars
  /\ [][ \A id \in Ids, result \in RequestResults :
           (firstOp[id].op = "timeout" /\ CompleteWith(id, result)) =>
             /\ lastCall'.ret = FALSE
             /\ promise'[id] = Rejected(TimeoutMessage) ]_vars

\* A request timed out and a complete issued afterwards returned false.
C6_Witness ==
  \E id \in Ids :
    /\ firstOp[id].op = "timeout"
    /\ lastCall = [op |-> "complete", id |-> id, ret |-> FALSE]
    /\ promise[id] = Rejected(TimeoutMessage)
    /\ now >= REQUEST_TIMEOUT_MS

\* C7: once complete or cancel has resolved a request, no timer of that
\* request is armed any more, and the timeout callback only ever runs for a
\* request that is still pending and was never resolved.
C7_TimerDisarmed ==
  /\ [](\A id \in Ids :
          firstOp[id].op \in {"complete", "cancel"} => TimersOf(armed, id) = {})
  /\ [][ \A h \in DOMAIN armed :
           TimeoutFiresOn(h) =>
             /\ firstOp[armed[h].id] = NoOp
             /\ has(armed[h].id)
             /\ timeouts[armed[h].id] = h ]_vars

\* A request was cancelled before any deadline was reached, and its timer is
\* no longer armed.
C7_Witness ==
  \E id \in Ids :
    /\ firstOp[id].op = "cancel"
    /\ wins[id] = 1
    /\ TimersOf(armed, id) = {}
    /\ id \notin DOMAIN timeouts
    /\ promise[id].state = "rejected"
    /\ promise[id].message # TimeoutMessage
    /\ now < REQUEST_TIMEOUT_MS

\* C8: has(id) is true exactly for the ids that were created and have not
\* been completed, cancelled or timed out.
C8_HasIffPending ==
  \A id \in AllIds :
    /\ has(id) <=> (id \in Ids /\ promise[id] = Unsettled)
    /\ has(id) <=> (id \in Ids /\ promise[id] # NoPromise /\ wins[id] = 0)

\* One request is pending, one has been resolved and one id was never created.
C8_Witness ==
  \E a, b \in Ids :
    /\ has(a)
    /\ ~has(b) /\ promise[b].state = "rejected"
    /\ ~has(NonExistentId)

\* The request each create function must store for its arguments.
HoldsParams(r, id, type, params) ==
  /\ DOMAIN r = DOMAIN params \cup {"id", "type", "createdAt"}
  /\ r.id = id
  /\ r.type = type
  /\ r.createdAt = now
  /\ \A k \in DOMAIN params : r[k] = params[k]

\* C9: right after create, get(id) is the request with the kind and fields
\* the create call was given; it stays the same for as long as id is
\* pending; for an id that is unknown or already resolved get returns absent.
C9_GetReturnsCreated ==
  /\ [][ \A id \in generateId :
           /\ \A chainId \in ChainIds :
                Created(createConnectRequest(id, chainId)) =>
                  get(id)' = [id |-> id, type |-> "connect",
                              chainId |-> chainId, createdAt |-> now]
           /\ \A params \in SendTransactionParams :
                Created(createSendTransactionRequest(id, params)) =>
                  HoldsParams(get(id)', id, "send_transaction", params)
           /\ \A params \in SignMessageParams :
                Created(createSignMessageRequest(id, params)) =>
                  HoldsParams(get(id)', id, "sign_message", params)
           /\ \A params \in SignTypedDataParams :
                Created(createSignTypedDataRequest(id, params)) =>
                  HoldsParams(get(id)', id, "sign_typed_data", params) ]_vars
  /\ [][ \A id \in Ids : (has(id) /\ has(id)') => get(id)' = get(id) ]_vars
  /\ [](\A id \in AllIds :
          (id \notin Ids \/ promise[id] # Unsettled) => get(id) = NoRequest)

\* A typed-data request is still pending, with its nested fields, after
\* another request was created and completed.
C9_Witness ==
  \E id, other \in Ids :
    /\ has(id)
    /\ get(id).type = "sign_typed_data"
    /\ get(id).message = [contents |-> "Hello"]
    /\ get(id).types = [Mail |-> << [name |-> "contents", type |-> "string"] >>]
    /\ get(other) = NoRequest
    /\ promise[other].state = "fulfilled"

\* =============================================================== HTTP bridge
\* http-server.ts (node:http version): makeHandler and handleApiRequest.

\* ------------------------------------------------------ JavaScript values
JsUndefined == [t |-> "undefined"]
JsNull == [t |-> "null"]
JsBoolean(b) == [t |-> "boolean", v |-> b]
JsNumber(n) == [t |-> "number", v |-> n]
JsString(s) == [t |-> "string", v |-> s]
JsObject(o) == [t |-> "object", v |-> o]
\* JSON.parse throws a SyntaxError
SyntaxError == [t |-> "SyntaxError"]

typeof(x) == IF x.t = "null" THEN "object" ELSE x.t

\* x.k for x other than null and undefined: a key the value does not have
\* reads as undefined.
GetProperty(x, k) ==
  IF x.t = "object" /\ k \in DOMAIN x.v THEN x.v[k] ELSE JsUndefined

\* x.k throws a TypeError when x is null or undefined.
PropertyReadThrows(x) == x.t \in {"null", "undefined"}

Truthy(x) ==
  CASE x.t = "undefined" -> FALSE
    [] x.t = "null" -> FALSE
    [] x.t = "boolean" -> x.v
    [] x.t = "number" -> x.v # 0
    [] x.t = "string" -> x.v # ""
    [] x.t = "object" -> TRUE

\* (x || fallback), for x a string or undefined
OrString(x, fallback) == IF Truthy(x) THEN x.v ELSE fallback

\* `x as number | undefined`, `x as string | undefined`, `x as {...}`
AsNumber(x) == IF x.t = "number" THEN x.v ELSE UndefinedNumber
AsString(x) == IF x.t = "string" THEN x.v ELSE Undefined
NoObject == [undefined |-> TRUE]
AsObject(x) == IF x.t = "object" THEN x.v ELSE NoObject

\* ------------------------------------------------------------ request bodies
\* Bodies posted to /api/complete/:id
SuccessBody == "{\"success\":true,\"result\":\"0x1234\"}"
FailureBody == "{\"success\":false,\"error\":\"User rejected\"}"
EmptyErrorBody == "{\"success\":false,\"error\":\"\"}"
NoResultBody == "{\"success\":true}"
NoSuccessBody == "{\"result\":\"test\"}"
StringSuccessBody == "{\"success\":\"true\",\"result\":\"0x1234\"}"
NullBody == "null"
NumberBody == "5"
TruncatedBody == "{\"success\":"
\* Bodies the browser page posts besides SuccessBody and FailureBody
CancelledBody == "{\"success\":false,\"error\":\"User cancelled\"}"
NotFoundReportBody == "{\"success\":false,\"error\":\"Request not found\"}"
\* Bodies with a missing or empty field, or with the field of the other case
EmptyResultBody == "{\"success\":true,\"result\":\"\"}"
SuccessWithErrorBody ==
  "{\"success\":true,\"result\":\"0x1234\",\"error\":\"ignored\"}"
ErrorOnlySuccessBody == "{\"success\":true,\"error\":\"ignored\"}"
NoErrorBody == "{\"success\":false}"
FailureWithResultBody ==
  "{\"success\":false,\"error\":\"User rejected\",\"result\":\"ignored\"}"
ResultOnlyFailureBody == "{\"success\":false,\"result\":\"ignored\"}"
\* Bodies posted to /api/test/create-request
ConnectBody == "{\"type\":\"connect\"}"
ConnectChainBody == "{\"type\":\"connect\",\"chainId\":1}"
SendTransactionBody ==
  "{\"type\":\"send_transaction\",\"to\":\"0xRecipient\",\"chainId\":1}"
SignMessageBody == "{\"type\":\"sign_message\",\"message\":\"Hello, world!\"}"
SignTypedDataBody ==
  "{\"type\":\"sign_typed_data\",\"domain\":{\"name\":\"Test\"},\"types\":{\"Mail\":[{\"name\":\"contents\",\"type\":\"string\"}]},\"primaryType\":\"Mail\",\"message\":{\"contents\":\"Hello\"}}"
UnknownTypeBody == "{\"type\":\"bogus\"}"

\* JSON.parse(raw) on the texts above; any other text in a run is not JSON.
JSONparse(raw) ==
  CASE raw = SuccessBody ->
         JsObject([success |-> JsBoolean(TRUE), result |-> JsString("0x1234")])
    [] raw = FailureBody ->
         JsObject([success |-> JsBoolean(FALSE),
                   error |-> JsString("User rejected")])
    [] raw = EmptyErrorBody ->
         JsObject([success |-> JsBoolean(FALSE), error |-> JsString("")])
    [] raw = NoResultBody -> JsObject([success |-> JsBoolean(TRUE)])
    [] raw = NoSuccessBody -> JsObject([result |-> JsString("test")])
    [] raw = StringSuccessBody ->
         JsObject([success |-> JsString("true"), result |-> JsString("0x1234")])
    [] raw = CancelledBody ->
         JsObject([success |-> JsBoolean(FALSE),
                   error |-> JsString("User cancelled")])
    [] raw = NotFoundReportBody ->
         JsObject([success |-> JsBoolean(FALSE),
                   error |-> JsString("Request not found")])
    [] raw = EmptyResultBody ->
         JsObject([success |-> JsBoolean(TRUE), result |-> JsString("")])
    [] raw = SuccessWithErrorBody ->
         JsObject([success |-> JsBoolean(TRUE), result |-> JsString("0x1234"),
                   error |-> JsString("ignored")])
    [] raw = ErrorOnlySuccessBody ->
         JsObject([success |-> JsBoolean(TRUE), error |-> JsString("ignored")])
    [] raw = NoErrorBody -> JsObject([success |-> JsBoolean(FALSE)])
    [] raw = FailureWithResultBody ->
         JsObject([success |-> JsBoolean(FALSE),
                   error |-> JsString("User rejected"),
                   result |-> JsString("ignored")])
    [] raw = ResultOnlyFailureBody ->
         JsObject([success |-> JsBoolean(FALSE), result |-> JsString("ignored")])
    [] raw = NullBody -> JsNull
    [] raw = NumberBody -> JsNumber(5)
    [] raw = ConnectBody -> JsObject([type |-> JsString("connect")])
    [] raw = ConnectChainBody ->
         JsObject([type |-> JsString("connect"), chainId |-> JsNumber(1)])
    [] raw = SendTransactionBody ->
         JsObject([type |-> JsString("send_transaction"),
                   to |-> JsString("0xRecipient"), chainId |-> JsNumber(1)])
    [] raw = SignMessageBody ->
         JsObject([type |-> JsString("sign_message"),
                   message |-> JsString("Hello, world!")])
    [] raw = SignTypedDataBody ->
         JsObject([type |-> JsString("sign_typed_data"),
                   domain |-> JsObject([name |-> "Test"]),
                   types |-> JsObject(
                     [Mail |-> << [name |-> "contents", type |-> "string"] >>]),
                   primaryType |-> JsString("Mail"),
                   message |-> JsObject([contents |-> "Hello"])])
    [] raw = UnknownTypeBody -> JsObject([type |-> JsString("bogus")])
    [] OTHER -> SyntaxError

\* JSON.stringify(o) leaves out the keys whose value is undefined.
OptionalNumberKeys == {"chainId"}
OptionalStringKeys == {"address", "value", "data", "gasLimit", "maxFeePerGas",
                       "maxPriorityFeePerGas"}
JSONstringify(o) ==
  LET kept == { k \in DOMAIN o :
                  /\ k \in OptionalNumberKeys => o[k] # UndefinedNumber
                  /\ k \in OptionalStringKeys => o[k] # Undefined }
  IN [k \in kept |-> o[k]]

\* ------------------------------------------------------------ requests
Methods == {"GET", "POST", "OPTIONS", "DELETE"}

\* A path segment with a character outside [a-f0-9-], e.g. "XYZ".
NonHexToken == -2
Tokens == AllIds \cup {NonHexToken}
\* No segment after the prefix.
NoToken == -1

PendingPath(tok) == [prefix |-> "/api/pending/", rest |-> tok]
CompletePath(tok) == [prefix |-> "/api/complete/", rest |-> tok]
TestResultPath(tok) == [prefix |-> "/api/test/result/", rest |-> tok]
HealthPath == [prefix |-> "/api/health", rest |-> NoToken]
CreateRequestPath == [prefix |-> "/api/test/create-request", rest |-> NoToken]
UnknownPath == [prefix |-> "/api/unknown", rest |-> NoToken]

\* pathname.match(/^<prefix>([a-f0-9-]+)$/): every id is a UUID.
PathMatch(pathname, prefix) ==
  pathname.prefix = prefix /\ pathname.rest \in AllIds

\* ------------------------------------------------------------ responses
corsHeaders ==
  ("Access-Control-Allow-Origin" :> "*") @@
  ("Access-Control-Allow-Methods" :> "GET, POST, OPTIONS") @@
  ("Access-Control-Allow-Headers" :> "Content-Type")

ContentTypeJson == ("Content-Type" :> "application/json")

\* { ...corsHeaders, "Content-Type": "application/json" }
JsonHeaders == ContentTypeJson @@ corsHeaders

NoBody == [empty |-> TRUE]
Response(status, body, headers) ==
  [status |-> status, body |-> body, headers |-> headers]

\* What running a handler did: the response it returned (or that it threw),
\* the registry it left, the registry call it made, and the promises it
\* attached then/catch to.
NoCall == [op |-> "none"]
Returns(resp) ==
  [threw |-> FALSE, response |-> resp, store |-> Store, call |-> NoCall,
   reacts |-> {}]
Throws ==
  [threw |-> TRUE, response |-> Response(0, NoBody, << >>), store |-> Store,
   call |-> NoCall, reacts |-> {}]

NotFound(message) == Returns(Response(404, [error |-> message], JsonHeaders))
BadRequest(message) == Returns(Response(400, [error |-> message], JsonHeaders))

\* ------------------------------------------------------------ API routes
\* GET /api/pending/:id that answers with a summary of the request only
GetPending_sendsSummary(id) ==
  LET request == get(id)
  IN IF request = NoRequest
     THEN NotFound("Request not found")
     ELSE Returns(Response(200,
                           [request |-> [id |-> request.id,
                                         type |-> request.type,
                                         createdAt |-> request.createdAt]],
                           JsonHeaders))

\* GET /api/pending/:id that takes the request out of the registry as it
\* reads it
GetPending_consumesEntry(id) ==
  LET request == get(id)
  IN IF request = NoRequest
     THEN NotFound("Request not found")
     ELSE [threw |-> FALSE,
           response |-> Response(200, [request |-> JSONstringify(request)],
                                 JsonHeaders),
           store |-> [Store EXCEPT !.pending = MapDelete(pending, id)],
           call |-> NoCall,
           reacts |-> {}]

\* GET /api/pending/:id
GetPending(id) ==
  LET request == get(id)
  IN IF request = NoRequest
     THEN NotFound("Request not found")
     ELSE Returns(Response(200, [request |-> JSONstringify(request)],
                           JsonHeaders))

\* POST /api/complete/:id that builds a success result whatever data.success is
PostComplete_ignoresSuccessFlag(id, body) ==
  IF ~has(id) THEN NotFound("Request not found")
  ELSE IF PropertyReadThrows(body) THEN Throws
  ELSE IF typeof(GetProperty(body, "success")) # "boolean"
  THEN BadRequest("Invalid request body")
  ELSE
    LET result == SuccessResult(OrString(GetProperty(body, "result"), ""))
        completed == complete(id, result)
    IN [threw |-> FALSE,
        response |->
          IF ~completed.ret
          THEN Response(500, [error |-> "Failed to complete request"],
                        JsonHeaders)
          ELSE Response(200, [ok |-> TRUE], JsonHeaders),
        store |-> completed.store,
        call |-> [op |-> "complete", id |-> id, result |-> result,
                  ret |-> completed.ret],
        reacts |-> {}]

\* POST /api/complete/:id that validates the body before it looks the id up
PostComplete_validatesFirst(id, body) ==
  IF PropertyReadThrows(body) THEN Throws
  ELSE IF typeof(GetProperty(body, "success")) # "boolean"
  THEN BadRequest("Invalid request body")
  ELSE IF ~has(id) THEN NotFound("Request not found")
  ELSE
    LET result ==
          IF GetProperty(body, "success").v
          THEN SuccessResult(OrString(GetProperty(body, "result"), ""))
          ELSE ErrorResult(OrString(GetProperty(body, "error"),
                                    "Unknown error"))
        completed == complete(id, result)
    IN [threw |-> FALSE,
        response |->
          IF ~completed.ret
          THEN Response(500, [error |-> "Failed to complete request"],
                        JsonHeaders)
          ELSE Response(200, [ok |-> TRUE], JsonHeaders),
        store |-> completed.store,
        call |-> [op |-> "complete", id |-> id, result |-> result,
                  ret |-> completed.ret],
        reacts |-> {}]

\* POST /api/complete/:id that yields to the event loop between has(id) and
\* complete(id, result): a timer of the request whose delay has elapsed
\* runs in between
PostComplete_yieldsBeforeComplete(id, body) ==
  IF ~has(id) THEN NotFound("Request not found")
  ELSE IF PropertyReadThrows(body) THEN Throws
  ELSE IF typeof(GetProperty(body, "success")) # "boolean"
  THEN BadRequest("Invalid request body")
  ELSE
    LET result ==
          IF GetProperty(body, "success").v
          THEN SuccessResult(OrString(GetProperty(body, "result"), ""))
          ELSE ErrorResult(OrString(GetProperty(body, "error"),
                                    "Unknown error"))
        elapsed == { h \in DOMAIN armed :
                       armed[h].id = id /\ now >= armed[h].deadline }
        fired == LET h == CHOOSE h \in elapsed : TRUE
                 IN timeoutCallback(id, armed[h].promise, MapDelete(armed, h))
        completed == IF elapsed # {}
                     THEN [ret |-> FALSE, store |-> fired.store]
                     ELSE complete(id, result)
    IN [threw |-> FALSE,
        response |->
          IF ~completed.ret
          THEN Response(500, [error |-> "Failed to complete request"],
                        JsonHeaders)
          ELSE Response(200, [ok |-> TRUE], JsonHeaders),
        store |-> completed.store,
        call |-> [op |-> "complete", id |-> id, result |-> result,
                  ret |-> completed.ret],
        reacts |-> {}]

\* POST /api/complete/:id that hands the posted fields to complete as they
\* are
PostComplete_keepsBody(id, body) ==
  IF ~has(id) THEN NotFound("Request not found")
  ELSE IF PropertyReadThrows(body) THEN Throws
  ELSE IF typeof(GetProperty(body, "success")) # "boolean"
  THEN BadRequest("Invalid request body")
  ELSE
    LET result ==
          IF GetProperty(body, "success").v
          THEN SuccessResult(AsString(GetProperty(body, "result")))
          ELSE ErrorResult(AsString(GetProperty(body, "error")))
        completed == complete(id, result)
    IN [threw |-> FALSE,
        response |->
          IF ~completed.ret
          THEN Response(500, [error |-> "Failed to complete request"],
                        JsonHeaders)
          ELSE Response(200, [ok |-> TRUE], JsonHeaders),
        store |-> completed.store,
        call |-> [op |-> "complete", id |-> id, result |-> result,
                  ret |-> completed.ret],
        reacts |-> {}]

\* POST /api/complete/:id
PostComplete(id, body) ==
  IF ~has(id) THEN NotFound("Request not found")
  ELSE IF PropertyReadThrows(body) THEN Throws
  ELSE IF typeof(GetProperty(body, "success")) # "boolean"
  THEN BadRequest("Invalid request body")
  ELSE
    LET result ==
          IF GetProperty(body, "success").v
          THEN SuccessResult(OrString(GetProperty(body, "result"), ""))
          ELSE ErrorResult(OrString(GetProperty(body, "error"),
                                    "Unknown error"))
        completed == complete(id, result)
    IN [threw |-> FALSE,
        response |->
          IF ~completed.ret
          THEN Response(500, [error |-> "Failed to complete request"],
                        JsonHeaders)
          ELSE Response(200, [ok |-> TRUE], JsonHeaders),
        store |-> completed.store,
        call |-> [op |-> "complete", id |-> id, result |-> result,
                  ret |-> completed.ret],
        reacts |-> {}]

\* GET /api/health that reports the number of requests ever created
GetHealth_countsCreated ==
  Returns(Response(200,
                   [status |-> "ok",
                    pendingRequests |->
                      Cardinality({ id \in Ids : promise[id] # NoPromise })],
                   JsonHeaders))

\* GET /api/health
GetHealth ==
  Returns(Response(200, [status |-> "ok", pendingRequests |-> size],
                   JsonHeaders))

\* The switch of POST /api/test/create-request on data.type
CreateOfType(type, id, data) ==
  CASE type = "connect" ->
         createConnectRequest(id, AsNumber(GetProperty(data, "chainId")))
    [] type = "send_transaction" ->
         createSendTransactionRequest(id,
           [to |-> AsString(GetProperty(data, "to")),
            value |-> AsString(GetProperty(data, "value")),
            data |-> AsString(GetProperty(data, "data")),
            chainId |-> AsNumber(GetProperty(data, "chainId")),
            gasLimit |-> AsString(GetProperty(data, "gasLimit")),
            maxFeePerGas |-> AsString(GetProperty(data, "maxFeePerGas")),
            maxPriorityFeePerGas |->
              AsString(GetProperty(data, "maxPriorityFeePerGas"))])
    [] type = "sign_message" ->
         createSignMessageRequest(id,
           [message |-> AsString(GetProperty(data, "message")),
            address |-> AsString(GetProperty(data, "address")),
            chainId |-> AsNumber(GetProperty(data, "chainId"))])
    [] type = "sign_typed_data" ->
         createSignTypedDataRequest(id,
           [domain |-> AsObject(GetProperty(data, "domain")),
            types |-> AsObject(GetProperty(data, "types")),
            primaryType |-> AsString(GetProperty(data, "primaryType")),
            message |-> AsObject(GetProperty(data, "message")),
            address |-> AsString(GetProperty(data, "address")),
            chainId |-> AsNumber(GetProperty(data, "chainId"))])

RequestTypes == {"connect", "send_transaction", "sign_message",
                 "sign_typed_data"}

\* POST /api/test/create-request
PostTestCreateRequest(data) ==
  IF PropertyReadThrows(data) THEN Throws
  ELSE
    LET type == AsString(GetProperty(data, "type"))
    IN IF type \notin RequestTypes
       THEN BadRequest("Invalid request type")
       ELSE LET result == CreateOfType(type, CHOOSE id \in generateId : TRUE,
                                       data)
            IN [threw |-> FALSE,
                response |-> Response(200, [id |-> result.id], JsonHeaders),
                store |-> result.store,
                call |-> [op |-> "create", id |-> result.id],
                reacts |-> {result.id}]

\* GET /api/test/result/:id
GetTestResult(id) ==
  IF id \notin DOMAIN testResults
  THEN IF has(id)
       THEN Returns(Response(200, [pending |-> TRUE], JsonHeaders))
       ELSE NotFound("Result not found")
  ELSE Returns(Response(200, testResults[id], JsonHeaders))

handleApiRequest(pathname, method, body) ==
  IF method = "OPTIONS"
  THEN Returns(Response(204, NoBody, corsHeaders))
  ELSE IF PathMatch(pathname, "/api/pending/") /\ method = "GET"
  THEN GetPending(pathname.rest)
  ELSE IF PathMatch(pathname, "/api/complete/") /\ method = "POST"
  THEN PostComplete(pathname.rest, body)
  ELSE IF pathname = HealthPath /\ method = "GET"
  THEN GetHealth
  ELSE IF pathname = CreateRequestPath /\ method = "POST"
  THEN PostTestCreateRequest(body)
  ELSE IF PathMatch(pathname, "/api/test/result/") /\ method = "GET"
  THEN GetTestResult(pathname.rest)
  ELSE NotFound("Not found")

\* The request handler for a path under /api/.  Only a POST body is read
\* and parsed; a body that is not JSON is answered before any routing.
makeHandler(method, pathname, raw) ==
  IF method = "POST" /\ JSONparse(raw).t = "SyntaxError"
  THEN Returns(Response(400, [error |-> "Invalid JSON"], ContentTypeJson))
  ELSE handleApiRequest(pathname, method,
                        IF method = "POST" THEN JSONparse(raw) ELSE JsNull)

\* ------------------------------------------------------------ HTTP actions
\* One request handled from its arrival to the response written.  Reading
\* the body is the handler's only suspension before it answers and touches
\* no state, so the handler is one step.
HttpExchange(method, pathname, raw) ==
  /\ (method = "POST" /\ pathname = CreateRequestPath) =>
       /\ generateId # {}
       /\ now + REQUEST_TIMEOUT_MS <= MaxTime
  /\ \E r \in { makeHandler(method, pathname, raw) } :
       /\ Install(r.store)
       /\ reactions' = reactions \cup r.reacts
       /\ response' = [req |-> [method |-> method, pathname |-> pathname,
                                raw |-> raw],
                       threw |-> r.threw,
                       status |-> r.response.status,
                       body |-> r.response.body,
                       headers |-> r.response.headers]
       /\ CASE r.call.op = "complete" ->
                 /\ NoteAttempt(r.call.id,
                                [op |-> "complete", result |-> r.call.result],
                                r.call.ret)
                 /\ lastCall' = [op |-> "complete", id |-> r.call.id,
                                 ret |-> r.call.ret]
                 /\ UNCHANGED nextTimer
            [] r.call.op = "create" ->
                 /\ nextTimer' = nextTimer + 1
                 /\ lastCall' = [op |-> "create", id |-> r.call.id,
                                 ret |-> TRUE]
                 /\ UNCHANGED << firstOp, wins >>
            [] OTHER -> UNCHANGED << nextTimer, firstOp, wins, lastCall >>
  /\ UNCHANGED << now, calls, httpServer >>

CompleteBodies ==
  { SuccessBody, FailureBody, EmptyErrorBody, NoResultBody, NoSuccessBody,
    StringSuccessBody, NullBody, TruncatedBody }

Request(method, pathname, raw) ==
  [method |-> method, pathname |-> pathname, raw |-> raw]

\* The browser page and the e2e tests post outcomes to /api/complete/:id.
CompleteRequests ==
  { Request("POST", CompletePath(id), raw) :
      id \in AllIds, raw \in CompleteBodies }

\* The requests of a run of the whole bridge: every route with every kind
\* of id segment, methods the routes do not serve, and bodies only with POST.
BridgeBodies == { SuccessBody, NullBody, NumberBody, TruncatedBody }

BridgeCreateBodies ==
  { ConnectChainBody, SignTypedDataBody, UnknownTypeBody, NullBody,
    NumberBody, TruncatedBody }

BridgeRequests ==
  { Request("GET", pathname, "") :
      pathname \in { PendingPath(tok) : tok \in Tokens }
                    \cup { TestResultPath(tok) : tok \in Tokens }
                    \cup { HealthPath, UnknownPath, CreateRequestPath,
                           CompletePath(NonExistentId) } }
  \cup { Request("OPTIONS", pathname, "") :
           pathname \in { HealthPath, UnknownPath,
                          CompletePath(NonExistentId) } }
  \cup { Request("DELETE", pathname, "") :
           pathname \in { HealthPath, PendingPath(NonExistentId) } }
  \cup { Request("POST", CompletePath(tok), raw) :
           tok \in Tokens, raw \in BridgeBodies }
  \cup { Request("POST", CreateRequestPath, raw) :
           raw \in BridgeCreateBodies }
  \cup { Request("POST", pathname, raw) :
           pathname \in { HealthPath, PendingPath(NonExistentId) },
           raw \in { SuccessBody, TruncatedBody } }

HttpRequest ==
  \E req \in BridgeRequests :
    /\ HttpExchange(req.method, req.pathname, req.raw)
    /\ UNCHANGED page

\* The bridge serving every route while requests time out.
HttpNext ==
  \/ HttpRequest
  \/ TimeoutFires
  \/ Tick

HttpSpec == Init /\ [][HttpNext]_vars

PostCompleteRequest ==
  \E req \in CompleteRequests :
    /\ HttpExchange(req.method, req.pathname, req.raw)
    /\ UNCHANGED page

\* The bridge serving completion posts while requests are created and time
\* out.
CompleteNext ==
  \/ PostCompleteRequest
  \/ CreateSignMessageRequest
  \/ TimeoutFires
  \/ Tick

CompleteSpec == Init /\ [][CompleteNext]_vars

\* Completion posts whose bodies leave a field out, leave it empty, or carry
\* the field of the other case.
NormalizeBodies ==
  { SuccessBody, FailureBody, NoResultBody, EmptyResultBody,
    SuccessWithErrorBody, ErrorOnlySuccessBody, NoErrorBody, EmptyErrorBody,
    FailureWithResultBody, ResultOnlyFailureBody }

PostNormalizeRequest ==
  \E id \in AllIds, raw \in NormalizeBodies :
    /\ HttpExchange("POST", CompletePath(id), raw)
    /\ UNCHANGED page

NormalizeNext ==
  \/ PostNormalizeRequest
  \/ CreateSignMessageRequest
  \/ TimeoutFires
  \/ Tick

NormalizeSpec == Init /\ [][NormalizeNext]_vars

\* ============================================================= HTTP claims
\* The step handles the HTTP request that response' records.
Exchanged ==
  /\ response'.req.method # "none"
  /\ now' = now
  /\ HttpExchange(response'.req.method, response'.req.pathname,
                  response'.req.raw)

\* The step handles a POST /api/complete/:id.
CompletePosted ==
  /\ Exchanged
  /\ response'.req.method = "POST"
  /\ response'.req.pathname.prefix = "/api/complete/"

PostedId == response'.req.pathname.rest
PostedBody == JSONparse(response'.req.raw)

HasBooleanSuccess(body) ==
  /\ body.t = "object"
  /\ "success" \in DOMAIN body.v
  /\ body.v.success.t = "boolean"

\* The body posts the field its success flag selects, as a string.
PostsOutcomeField(body) ==
  LET k == IF body.v.success.v THEN "result" ELSE "error"
  IN k \in DOMAIN body.v /\ body.v[k].t = "string"

\* The outcome as posted: the selected field, taken literally.
PostedOutcome(body) ==
  IF body.v.success.v
  THEN SuccessResult(body.v.result.v)
  ELSE ErrorResult(body.v.error.v)

Answered(status, body) ==
  /\ ~response'.threw
  /\ response'.status = status
  /\ response'.body = body

\* C11 as stated: a POST /api/complete/{id} on a pending id with a boolean
\* success is answered 200 {ok:true} and resolves the future with the posted
\* outcome, Success(posted result) or Failure(posted error).
C11_Original ==
  [][ (CompletePosted /\ has(PostedId) /\ HasBooleanSuccess(PostedBody)
         /\ PostsOutcomeField(PostedBody))
      => /\ Answered(200, [ok |-> TRUE])
         /\ promise'[PostedId] = Fulfilled(PostedOutcome(PostedBody)) ]_vars

\* C11 amended: a POST /api/complete/{id} on a pending id with a boolean
\* success is answered 200 {ok:true} and resolves the future: with the posted
\* result or error when that field is a non-empty string, and with result ""
\* or error "Unknown error" when the field is missing or empty.
C11_CompleteResolves ==
  [][ (CompletePosted /\ has(PostedId) /\ HasBooleanSuccess(PostedBody))
      => /\ Answered(200, [ok |-> TRUE])
         /\ promise[PostedId] = Unsettled
         /\ promise'[PostedId].state = "fulfilled"
         /\ promise'[PostedId].value.success = PostedBody.v.success.v
         /\ LET value == promise'[PostedId].value
                posted == PostsOutcomeField(PostedBody)
                          /\ PostedOutcome(PostedBody) \notin
                               { SuccessResult(""), ErrorResult("") }
            IN /\ posted => value = PostedOutcome(PostedBody)
               /\ ~posted => value \in { SuccessResult(""),
                                         ErrorResult("Unknown error") } ]_vars

\* A failure posted for a pending request was answered 200 {ok:true} and the
\* future holds the posted error.
C11_Witness ==
  /\ response.req.method = "POST"
  /\ response.req.raw = FailureBody
  /\ response.status = 200
  /\ response.body = [ok |-> TRUE]
  /\ response.req.pathname.rest \in Ids
  /\ promise[response.req.pathname.rest] =
       Fulfilled(ErrorResult("User rejected"))


\* The registry and the runtime state behind it are what they were.
RegistryUntouched ==
  /\ pending' = pending
  /\ timeouts' = timeouts
  /\ armed' = armed
  /\ promise' = promise

\* The body is JSON whose success field is missing or not a boolean.
LacksBooleanSuccess(body) ==
  body.t # "SyntaxError" /\ ~HasBooleanSuccess(body)

\* C12: a POST /api/complete/{id} on a pending id whose body has no boolean
\* success field is answered 400 and leaves the registry untouched: the entry
\* is still there, the future unsettled and the timeout armed.
C12_InvalidBodyRejected ==
  [][ (CompletePosted /\ has(PostedId) /\ LacksBooleanSuccess(PostedBody))
      => /\ ~response'.threw
         /\ response'.status = 400
         /\ RegistryUntouched
         /\ PostedId \in DOMAIN pending'
         /\ promise'[PostedId] = Unsettled
         /\ TimersOf(armed', PostedId) # {} ]_vars


\* C13 as stated: a POST /api/complete/{id} for an id without a pending entry
\* is answered 404 {error: "Request not found"} whatever the body is, a body
\* that is not valid JSON included.
C13_Original ==
  [][ (CompletePosted /\ PostedId \in AllIds /\ ~has(PostedId))
      => Answered(404, [error |-> "Request not found"]) ]_vars

\* C13 amended: for an id without a pending entry, a POST /api/complete/{id}
\* whose body is valid JSON (a valid completion or a structurally wrong body)
\* is answered 404 {error: "Request not found"}; a body that is not valid
\* JSON is answered 400 {error: "Invalid JSON"} before the lookup.  Neither
\* changes the registry.
C13_AbsentIsNotFound ==
  [][ (CompletePosted /\ PostedId \in AllIds /\ ~has(PostedId))
      => /\ RegistryUntouched
         /\ PostedBody.t # "SyntaxError"
              => Answered(404, [error |-> "Request not found"])
         /\ PostedBody.t = "SyntaxError"
              => Answered(400, [error |-> "Invalid JSON"]) ]_vars

\* A structurally wrong body posted for a request that had timed out was
\* answered 404 {error: "Request not found"}.
C13_Witness ==
  /\ response.req.method = "POST"
  /\ response.req.raw = NoSuccessBody
  /\ response.status = 404
  /\ response.body = [error |-> "Request not found"]
  /\ response.req.pathname.rest \in Ids
  /\ promise[response.req.pathname.rest] = Rejected(TimeoutMessage)


\* C14: of the POST /api/complete/{id} requests with valid bodies for one
\* id, only the first can be answered 200: a 200 goes to a request whose
\* future was unsettled and had no winner yet, and once the future holds a
\* posted outcome every further valid post is answered 404 and leaves the
\* delivered result as it is.
C14_OnlyFirstCompletes ==
  [][ (CompletePosted /\ PostedId \in Ids /\ HasBooleanSuccess(PostedBody))
      => /\ ~response'.threw
         /\ response'.status \in {200, 404}
         /\ response'.status = 200
              => /\ promise[PostedId] = Unsettled
                 /\ wins[PostedId] = 0
                 /\ wins'[PostedId] = 1
         /\ promise[PostedId].state = "fulfilled"
              => /\ Answered(404, [error |-> "Request not found"])
                 /\ promise'[PostedId] = promise[PostedId]
                 /\ wins'[PostedId] = 1 ]_vars

\* A success posted after a failure had been delivered was answered 404 and
\* the future still holds the failure.
C14_Witness ==
  /\ response.req.method = "POST"
  /\ response.req.raw = SuccessBody
  /\ response.status = 404
  /\ response.req.pathname.rest \in Ids
  /\ promise[response.req.pathname.rest] =
       Fulfilled(ErrorResult("User rejected"))
  /\ firstOp[response.req.pathname.rest] =
       [op |-> "complete", result |-> ErrorResult("User rejected")]


\* The step handles a request for `method` on the route `prefix` with an id
\* segment.
RouteRequested(method, prefix) ==
  /\ Exchanged
  /\ response'.req.method = method
  /\ response'.req.pathname.prefix = prefix
  /\ response'.req.pathname.rest \in AllIds

\* The fields every request has and the fields of its kind.
RequiredKeys(type) ==
  {"id", "type", "createdAt"} \cup
  ( CASE type = "send_transaction" -> {"to"}
      [] type = "sign_message" -> {"message"}
      [] type = "sign_typed_data" ->
           {"domain", "types", "primaryType", "message"}
      [] OTHER -> {} )

\* `sent` is the stored request as JSON: every field sent is the stored one,
\* and the required fields and a defined chainId are all sent.
SendsRequest(sent, stored) ==
  /\ \A k \in DOMAIN sent : k \in DOMAIN stored /\ sent[k] = stored[k]
  /\ RequiredKeys(stored.type) \subseteq DOMAIN sent
  /\ ("chainId" \in DOMAIN stored /\ stored.chainId # UndefinedNumber)
       => "chainId" \in DOMAIN sent

\* C15: GET /api/pending/{id} is answered 200 with the stored request (id,
\* type, chainId and the fields of its kind, nested typed data included)
\* while id is pending and 404 {error: "Request not found"} otherwise, and
\* it changes neither the registry nor any future.
C15_GetPendingReadsOnly ==
  [][ RouteRequested("GET", "/api/pending/")
      => /\ RegistryUntouched
         /\ testResults' = testResults
         /\ ~response'.threw
         /\ has(PostedId)
              => /\ response'.status = 200
                 /\ DOMAIN response'.body = {"request"}
                 /\ response'.body.request.id = PostedId
                 /\ SendsRequest(response'.body.request, get(PostedId))
         /\ ~has(PostedId)
              => Answered(404, [error |-> "Request not found"]) ]_vars

\* A pending typed-data request was fetched with its nested fields.
C15_Witness ==
  /\ response.req.method = "GET"
  /\ response.req.pathname.prefix = "/api/pending/"
  /\ response.status = 200
  /\ has(response.req.pathname.rest)
  /\ response.body.request.type = "sign_typed_data"
  /\ response.body.request.domain = [name |-> "Test"]
  /\ response.body.request.types =
       [Mail |-> << [name |-> "contents", type |-> "string"] >>]
  /\ response.body.request.message = [contents |-> "Hello"]
  /\ "address" \notin DOMAIN response.body.request


\* The statuses the bridge documents: 200, 400, 404 and 500, and 204 for a
\* preflight.
DocumentedStatuses == {200, 204, 400, 404, 500}

\* C16: the bridge never throws: every request to an /api/ path, whatever
\* its method, path and body, is answered with a documented status.
C16_NeverThrows ==
  response.req.method # "none"
    => ~response.threw /\ response.status \in DocumentedStatuses

\* The registry changed at most by gaining the entry, the timer and the
\* unsettled future of one new request.
OnlyAdds ==
  /\ \A id \in DOMAIN pending :
       id \in DOMAIN pending' /\ pending'[id] = pending[id]
  /\ \A h \in DOMAIN armed : h \in DOMAIN armed' /\ armed'[h] = armed[h]
  /\ \A id \in Ids :
       \/ promise'[id] = promise[id]
       \/ promise[id] = NoPromise /\ promise'[id] = Unsettled
  /\ Cardinality(DOMAIN pending') <= Cardinality(DOMAIN pending) + 1

\* C17 as stated: every route other than POST /api/complete/{id} leaves the
\* pending requests, their timers and their futures unchanged.
C17_Original ==
  [][ (Exchanged /\ ~RouteRequested("POST", "/api/complete/"))
      => RegistryUntouched ]_vars

\* C17 amended: POST /api/complete/{id} is the only route that removes a
\* pending request or settles a future; POST /api/test/create-request can
\* add one pending request with its timer and an unsettled future; every
\* other route leaves the pending requests, their timers and their futures
\* unchanged.
C17_OnlyCompleteSettles ==
  [][ (Exchanged /\ ~RouteRequested("POST", "/api/complete/"))
      => IF response'.req.method = "POST"
            /\ response'.req.pathname = CreateRequestPath
         THEN /\ OnlyAdds
              /\ response'.status = 200
                   => /\ response'.body.id \notin DOMAIN pending
                      /\ response'.body.id \in DOMAIN pending'
                      /\ promise'[response'.body.id] = Unsettled
                      /\ TimersOf(armed', response'.body.id) # {}
              /\ response'.status # 200 => RegistryUntouched
         ELSE RegistryUntouched ]_vars

\* A request created through POST /api/test/create-request is pending.
C17_Witness ==
  /\ response.req.method = "POST"
  /\ response.req.pathname = CreateRequestPath
  /\ response.status = 200
  /\ has(response.body.id)
  /\ promise[response.body.id] = Unsettled

\* C18: GET /api/health is always answered 200 with status "ok" and with
\* pendingRequests the number of requests created and not yet completed or
\* timed out, and it changes nothing.
C18_HealthCountsPending ==
  [][ (Exchanged /\ response'.req.method = "GET"
         /\ response'.req.pathname = HealthPath)
      => /\ Answered(200,
                     [status |-> "ok",
                      pendingRequests |->
                        Cardinality({ id \in Ids : promise[id] = Unsettled })])
         /\ RegistryUntouched
         /\ testResults' = testResults ]_vars

\* The health check reported one pending request while another request had
\* already been settled.
C18_Witness ==
  /\ response.req.method = "GET"
  /\ response.req.pathname = HealthPath
  /\ response.body.pendingRequests = 1
  /\ \E id \in Ids : promise[id].state \in {"fulfilled", "rejected"}
  /\ \E id \in Ids : promise[id] = Unsettled

\* C19: every response to a request under /api/ carries the CORS headers
\* that permit any origin, error responses included, and an OPTIONS request
\* is answered 204.
C19_CorsOnEveryResponse ==
  (response.req.method # "none" /\ ~response.threw)
    => /\ \A h \in DOMAIN corsHeaders :
            h \in DOMAIN response.headers
            /\ response.headers[h] = corsHeaders[h]
       /\ response.req.method = "OPTIONS" => response.status = 204

\* ============================================================ tool calls
\* mcp-server.ts: the CallToolRequestSchema handler and the tool handlers.

DEFAULT_PORT == 3847
\* getDefaultChainId() with EVM_MCP_DEFAULT_CHAIN unset
getDefaultChainId == 1

\* ---------------------------------------------------------- zod schemas
\* z.object({...}): the keys that must be strings, may be strings, may be
\* numbers, and must be objects.
Schema(strings, optionalStrings, optionalNumbers, objects) ==
  [strings |-> strings, optionalStrings |-> optionalStrings,
   optionalNumbers |-> optionalNumbers, objects |-> objects]

ConnectWalletSchema == Schema({}, {}, {"chainId"}, {})
SendTransactionSchema ==
  Schema({"to"},
         {"value", "data", "gasLimit", "maxFeePerGas", "maxPriorityFeePerGas"},
         {"chainId"}, {})
SignMessageSchema == Schema({"message"}, {"address"}, {"chainId"}, {})
SignTypedDataSchema ==
  Schema({"primaryType"}, {"address"}, {"chainId"},
         {"domain", "types", "message"})
GetBalanceSchema == Schema({"address"}, {}, {"chainId"}, {})

\* safeParse that accepts whatever it is given
safeParse_acceptsAll(schema, args) == TRUE

\* schema.safeParse(args).success
safeParse(schema, args) ==
  /\ args.t = "object"
  /\ \A k \in schema.strings :
       k \in DOMAIN args.v /\ args.v[k].t = "string"
  /\ \A k \in schema.objects :
       k \in DOMAIN args.v /\ args.v[k].t = "object"
  /\ \A k \in schema.optionalStrings :
       k \in DOMAIN args.v => args.v[k].t = "string"
  /\ \A k \in schema.optionalNumbers :
       k \in DOMAIN args.v => args.v[k].t = "number"

\* parsed.data.chainId || getDefaultChainId()
ChainIdOrDefault(data) ==
  IF TruthyNumber(AsNumber(GetProperty(data, "chainId")))
  THEN AsNumber(GetProperty(data, "chainId"))
  ELSE getDefaultChainId

\* --------------------------------------------------------------- browser.ts
buildSignUrl(port, requestId) ==
  [origin |-> "http://127.0.0.1:", port |-> port, path |-> "/sign/",
   id |-> requestId]
buildConnectUrl(port, requestId) ==
  [origin |-> "http://127.0.0.1:", port |-> port, path |-> "/connect/",
   id |-> requestId]

\* ----------------------------------------------------------- tool results
\* A template literal: its fixed texts and the values in its holes.
ApprovalText(url, outcome, value) ==
  [lead |-> "Approval URL: ", url |-> url, outcome |-> outcome,
   value |-> value]
PlainText(lead, value) == [lead |-> lead, value |-> value]

ToolResult(text) == [isError |-> FALSE, text |-> text]
ToolError(text) == [isError |-> TRUE, text |-> text]

BrowserTools ==
  {"connect_wallet", "send_transaction", "sign_message", "sign_typed_data"}

SchemaOf(name) ==
  CASE name = "connect_wallet" -> ConnectWalletSchema
    [] name = "send_transaction" -> SendTransactionSchema
    [] name = "sign_message" -> SignMessageSchema
    [] name = "sign_typed_data" -> SignTypedDataSchema
    [] name = "get_balance" -> GetBalanceSchema

\* The pendingStore.create*Request call of each tool handler
CreateForTool(name, id, data) ==
  CASE name = "connect_wallet" ->
         createConnectRequest(id, ChainIdOrDefault(data))
    [] name = "send_transaction" ->
         createSendTransactionRequest(id,
           [to |-> AsString(GetProperty(data, "to")),
            value |-> AsString(GetProperty(data, "value")),
            data |-> AsString(GetProperty(data, "data")),
            chainId |-> ChainIdOrDefault(data),
            gasLimit |-> AsString(GetProperty(data, "gasLimit")),
            maxFeePerGas |-> AsString(GetProperty(data, "maxFeePerGas")),
            maxPriorityFeePerGas |->
              AsString(GetProperty(data, "maxPriorityFeePerGas"))])
    [] name = "sign_message" ->
         createSignMessageRequest(id,
           [message |-> AsString(GetProperty(data, "message")),
            address |-> AsString(GetProperty(data, "address")),
            chainId |-> ChainIdOrDefault(data)])
    [] name = "sign_typed_data" ->
         createSignTypedDataRequest(id,
           [domain |-> AsObject(GetProperty(data, "domain")),
            types |-> AsObject(GetProperty(data, "types")),
            primaryType |-> AsString(GetProperty(data, "primaryType")),
            message |-> AsObject(GetProperty(data, "message")),
            address |-> AsString(GetProperty(data, "address")),
            chainId |-> ChainIdOrDefault(data)])

\* URL builder that leaves the request id out of the URL
UrlForTool_dropsId(name, port, id) ==
  IF name = "connect_wallet" THEN buildConnectUrl(port, NonExistentId)
  ELSE buildSignUrl(port, NonExistentId)

UrlForTool(name, port, id) ==
  IF name = "connect_wallet" THEN buildConnectUrl(port, id)
  ELSE buildSignUrl(port, id)

SuccessOutcome(name) ==
  CASE name = "connect_wallet" -> "\nWallet connected successfully!\nAddress: "
    [] name = "send_transaction" ->
         "\nTransaction sent successfully!\nTransaction Hash: "
    [] name = "sign_message" -> "\nMessage signed successfully!\nSignature: "
    [] name = "sign_typed_data" ->
         "\nTyped data signed successfully!\nSignature: "

FailureOutcome(name) ==
  CASE name = "connect_wallet" -> "\nFailed to connect wallet: "
    [] name = "send_transaction" -> "\nTransaction failed: "
    [] name = "sign_message" -> "\nSigning failed: "
    [] name = "sign_typed_data" -> "\nSigning failed: "

\* config.ts CHAINS: of the built-in chains the runs use Ethereum mainnet.
CHAINS ==
  (1 :> [name |-> "Ethereum", rpcUrl |-> "https://eth.llamarpc.com",
         symbol |-> "ETH", blockExplorer |-> "https://etherscan.io"])

\* The text of a successful tool call; send_transaction appends the
\* explorer link of a known chain.
SuccessText(name, data, url, value) ==
  IF name = "send_transaction" /\ ChainIdOrDefault(data) \in DOMAIN CHAINS
  THEN [lead |-> "Approval URL: ", url |-> url,
        outcome |-> SuccessOutcome(name), value |-> value,
        explorer |-> [base |-> CHAINS[ChainIdOrDefault(data)].blockExplorer,
                      path |-> "/tx/", hash |-> value]]
  ELSE ApprovalText(url, SuccessOutcome(name), value)

\* What a tool handler returns once `await promise` has an outcome: the
\* text for a Success or a Failure, and for a rejection the text built by
\* the catch clause of the CallTool handler.
ResultOfTool(name, data, url, p) ==
  IF p.state = "rejected"
  THEN ToolError(PlainText("Error: ", p.message))
  ELSE IF p.value.success
  THEN ToolResult(SuccessText(name, data, url, p.value.result))
  ELSE ToolError(ApprovalText(url, FailureOutcome(name), p.value.error))

\* handleGetBalance: the balance comes from the chain's RPC endpoint; a
\* failed RPC call throws into the catch clause of the CallTool handler.
RpcOutcomes == { "1000000000000000000", "fetch failed" }
handleGetBalance(args, rpc) ==
  IF ~safeParse(GetBalanceSchema, args)
  THEN ToolError(PlainText("Invalid arguments: ", "ZodError"))
  ELSE IF ChainIdOrDefault(args) \notin DOMAIN CHAINS
  THEN ToolError(PlainText("Unknown chain ID: ", "No RPC URL configured."))
  ELSE IF rpc = "fetch failed"
  THEN ToolError(PlainText("Error: ", rpc))
  ELSE ToolResult([lead |-> "Balance: ", value |-> rpc,
                   symbol |-> CHAINS[ChainIdOrDefault(args)].symbol])

\* ------------------------------------------------------------ tool actions
NoUrl == [origin |-> "none"]
NoResult == [isError |-> FALSE, text |-> [none |-> TRUE]]

Call(pc, name, args, id, url, result) ==
  [pc |-> pc, name |-> name, args |-> args, id |-> id, url |-> url,
   result |-> result]

Returned(name, args, result) ==
  Call("returned", name, args, NonExistentId, NoUrl, result)

\* The slot of the next tool call.
NextCall ==
  LET free == { k \in DOMAIN calls : calls[k] = NotCalled }
  IN { k \in free : \A other \in free : k <= other }

\* --------------------------------------------------------------- getPort
\* The value Deno.env.get("EVM_MCP_PORT") returns: undefined when the
\* variable is unset, else its text as the sequence of its characters.
UnsetEnv == [set |-> FALSE]
SetEnv(text) == [set |-> TRUE, text |-> text]

Digits == << "0", "1", "2", "3", "4", "5", "6", "7", "8", "9" >>
IsDigit(c) == \E d \in 1..10 : Digits[d] = c
DigitValue(c) == (CHOOSE d \in 1..10 : Digits[d] = c) - 1

\* parseInt(string, 10): leading white space is skipped, a sign is read,
\* then the longest run of decimal digits; what follows is ignored, and
\* the result is NaN when there is no digit.
RECURSIVE TrimStart(_)
TrimStart(s) == IF s # << >> /\ Head(s) = " " THEN TrimStart(Tail(s)) ELSE s

RECURSIVE DigitsValue(_, _)
DigitsValue(s, acc) ==
  IF s # << >> /\ IsDigit(Head(s))
  THEN DigitsValue(Tail(s), 10 * acc + DigitValue(Head(s)))
  ELSE acc

parseInt(text) ==
  LET s == TrimStart(text)
      negative == s # << >> /\ Head(s) = "-"
      z == IF s # << >> /\ Head(s) \in {"-", "+"} THEN Tail(s) ELSE s
  IN IF z = << >> \/ ~IsDigit(Head(z))
     THEN [isNaN |-> TRUE, value |-> 0]
     ELSE [isNaN |-> FALSE,
           value |-> IF negative THEN 0 - DigitsValue(z, 0)
                     ELSE DigitsValue(z, 0)]

\* getPort that leaves out the test parsed < 65536
getPortFrom_noUpperLimit(envPort) ==
  IF envPort.set /\ envPort.text # << >>
  THEN LET parsed == parseInt(envPort.text)
       IN IF ~parsed.isNaN /\ parsed.value > 0
          THEN parsed.value
          ELSE DEFAULT_PORT
  ELSE DEFAULT_PORT

\* config.ts getPort() with envPort the value of EVM_MCP_PORT
getPortFrom(envPort) ==
  IF envPort.set /\ envPort.text # << >>
  THEN LET parsed == parseInt(envPort.text)
       IN IF ~parsed.isNaN /\ parsed.value > 0 /\ parsed.value < 65536
          THEN parsed.value
          ELSE DEFAULT_PORT
  ELSE DEFAULT_PORT

\* config.ts getPort() with EVM_MCP_PORT unset
getPort == getPortFrom(UnsetEnv)

\* ensureServerRunning() called by the handler of call k, up to its return
\* or its await.  With server and serverPort set it returns the port.
\* Otherwise it creates a server and calls srv.listen(port, "127.0.0.1", cb),
\* which binds the port at once: on a port another server of the process
\* is bound to, the server emits 'error' (EADDRINUSE), for which no listener
\* is registered, and cb is never called.
ensureServerRunning(k) ==
  IF httpServer.server # NullServer /\ TruthyNumber(httpServer.serverPort)
  THEN [returned |-> TRUE, port |-> httpServer.serverPort,
        server |-> httpServer]
  ELSE IF httpServer.listening # {}
  THEN [returned |-> FALSE, port |-> NullPort,
        server |-> [httpServer EXCEPT !.started = @ \cup {k},
                                      !.uncaught = TRUE]]
  ELSE [returned |-> FALSE, port |-> NullPort,
        server |-> [httpServer EXCEPT !.started = @ \cup {k},
                                      !.listening = @ \cup {k}]]

\* The rest of ensureServerRunning, run by the callback of listen:
\*   server = srv; serverPort = srv.address().port; return serverPort
serverListening(k) ==
  [httpServer EXCEPT !.server = k, !.serverPort = getPort]

\* The handler of call k has the port: it creates the request, builds the
\* URL and calls openBrowser(url).
CreateAndOpen(k, name, args, port) ==
  \E id \in generateId :
    /\ Registered(CreateForTool(name, id, args))
    /\ calls' = [calls EXCEPT ![k] =
         Call("opening", name, args, id, UrlForTool(name, port, id),
              NoResult)]

\* The CallTool handler from the request to its first suspension: the
\* switch on the tool name, the validation of the arguments, and for a
\* browser tool the call of ensureServerRunning; when that returns the port
\* without waiting, the handler goes on to openBrowser(url) in the same task.
CallTool(name, args, rpc) ==
  /\ Alive
  /\ \E k \in NextCall :
       IF name \in BrowserTools /\ safeParse(SchemaOf(name), args)
       THEN LET e == ensureServerRunning(k) IN
              /\ httpServer' = e.server
              /\ IF e.returned
                 THEN CreateAndOpen(k, name, args, e.port)
                 ELSE /\ calls' = [calls EXCEPT ![k] =
                           Call("starting", name, args, NonExistentId, NoUrl,
                                NoResult)]
                      /\ UNCHANGED << pending, timeouts, armed, nextTimer,
                                      promise, settleCalls, firstOp, wins,
                                      lastCall, now, response, testResults,
                                      reactions, crashed, page >>
       ELSE /\ calls' = [calls EXCEPT ![k] =
                 IF name \in BrowserTools
                 THEN Returned(name, args,
                        ToolError(PlainText("Invalid arguments: ",
                                            "ZodError")))
                 ELSE IF name = "get_balance"
                 THEN Returned(name, args, handleGetBalance(args, rpc))
                 ELSE Returned(name, args,
                               ToolError(PlainText("Unknown tool: ", name)))]
            /\ UNCHANGED << pending, timeouts, armed, nextTimer, promise,
                            settleCalls, firstOp, wins, lastCall, now,
                            response, testResults, reactions, crashed,
                            httpServer, page >>

\* The callback of listen runs for the server of call k: ensureServerRunning
\* sets server and serverPort and resolves, and the handler goes on.
ServerRunning(k) ==
  /\ calls[k].pc = "starting"
  /\ k \in httpServer.listening
  /\ httpServer' = serverListening(k)
  /\ CreateAndOpen(k, calls[k].name, calls[k].args, serverListening(k).serverPort)

\* openBrowser(url) has resolved: the handler reaches `await promise`.
BrowserOpened(k) ==
  /\ Alive
  /\ calls[k].pc = "opening"
  /\ calls' = [calls EXCEPT ![k].pc = "waiting"]
  /\ UNCHANGED << pending, timeouts, armed, nextTimer, promise, settleCalls,
                  firstOp, wins, lastCall, now, response, testResults,
                  reactions, crashed, httpServer, page >>

\* The awaited promise has an outcome: the handler returns its result.
CallReturns(k) ==
  /\ Alive
  /\ calls[k].pc = "waiting"
  /\ promise[calls[k].id].state \in {"fulfilled", "rejected"}
  /\ calls' = [calls EXCEPT ![k] =
       Call("returned", @.name, @.args, @.id, @.url,
            ResultOfTool(@.name, @.args, @.url, promise[@.id]))]
  /\ UNCHANGED << pending, timeouts, armed, nextTimer, promise, settleCalls,
                  firstOp, wins, lastCall, now, response, testResults,
                  reactions, crashed, httpServer, page >>

\* The tool calls of a run: the browser tools with valid arguments.
ToolInputs ==
  { [name |-> "connect_wallet", args |-> JsObject([x \in {} |-> JsNull])],
    [name |-> "send_transaction",
     args |-> JsObject([to |-> JsString("0xRecipient")])] }

ToolCalled ==
  \E input \in ToolInputs, rpc \in RpcOutcomes :
    CallTool(input.name, input.args, rpc)
ServerStarted == \E k \in DOMAIN calls : ServerRunning(k)
BrowserOpens == \E k \in DOMAIN calls : BrowserOpened(k)
ToolReturns == \E k \in DOMAIN calls : CallReturns(k)

\* The browser page posts an outcome for a pending request, which the
\* bridge hands to complete.
BrowserCompletes ==
  \E id \in DOMAIN pending, result \in RequestResults :
    CompleteWith(id, result)

\* The tool handlers running while the bridge completes requests and
\* requests time out.
ToolNext ==
  \/ ToolCalled
  \/ ServerStarted
  \/ BrowserOpens
  \/ ToolReturns
  \/ BrowserCompletes
  \/ TimeoutFires
  \/ Tick

ToolSpec == Init /\ [][ToolNext]_vars

\* ============================================================= tool claims
\* Tool calls the handlers turn down: arguments that fail the schema of the
\* tool (no arguments at all, a chainId given as a string, a missing
\* required key, a key of the wrong type), and a tool name that is not
\* registered.
RejectedInputs ==
  { [name |-> "connect_wallet", args |-> JsUndefined],
    [name |-> "connect_wallet",
     args |-> JsObject([chainId |-> JsString("1")])],
    [name |-> "send_transaction", args |-> JsObject([value |-> JsString("1")])],
    [name |-> "sign_message", args |-> JsObject([message |-> JsNumber(5)])],
    [name |-> "sign_typed_data",
     args |-> JsObject([primaryType |-> JsString("Mail")])],
    [name |-> "get_balance", args |-> JsObject([x \in {} |-> JsNull])],
    [name |-> "unknown_tool", args |-> JsObject([x \in {} |-> JsNull])] }

\* get_balance calls with valid arguments, on a known and an unknown chain.
BalanceInputs ==
  { [name |-> "get_balance",
     args |-> JsObject([address |-> JsString("0xHolder")])],
    [name |-> "get_balance",
     args |-> JsObject([address |-> JsString("0xHolder"),
                        chainId |-> JsNumber(999)])] }

\* A connect_wallet call with valid arguments, for contrast.
AcceptedInputs ==
  { [name |-> "connect_wallet", args |-> JsObject([x \in {} |-> JsNull])] }

AnyToolCalled ==
  \E input \in RejectedInputs \cup BalanceInputs \cup AcceptedInputs,
     rpc \in RpcOutcomes :
    CallTool(input.name, input.args, rpc)

\* The CallTool handler given valid and invalid calls, while requests of
\* the valid ones time out.
ValidationNext ==
  \/ AnyToolCalled
  \/ ServerStarted
  \/ BrowserOpens
  \/ ToolReturns
  \/ TimeoutFires
  \/ Tick

ValidationSpec == Init /\ [][ValidationNext]_vars

\* The result of a returned browser-tool call tells the outcome of its
\* request: no error and the posted value for a Success, isError and the
\* posted error for a Failure, isError and the rejection message for a
\* rejected future.
ResultTellsOutcome(call) ==
  LET p == promise[call.id]
  IN CASE p.state = "fulfilled" /\ p.value.success ->
            ~call.result.isError /\ call.result.text.value = p.value.result
       [] p.state = "fulfilled" /\ ~p.value.success ->
            call.result.isError /\ call.result.text.value = p.value.error
       [] p.state = "rejected" ->
            call.result.isError /\ call.result.text.value = p.message
       [] OTHER -> FALSE

\* C20: a browser-tool call returns a non-error result with the posted
\* value exactly when its request was completed with Success, an isError
\* result with the posted error when it was completed with Failure, and an
\* isError result with the rejection message when its future was rejected;
\* no exception escapes the handler, so no rejection ends the process
\* before the call has returned.
C20_ToolReturnsOutcome ==
  /\ ~crashed
  /\ \A k \in DOMAIN calls :
       (calls[k].pc = "returned" /\ calls[k].name \in BrowserTools)
         => ResultTellsOutcome(calls[k])

\* A rejection handler is attached to the promise of request id: a tool
\* handler has reached `await promise` on it, or /api/test/create-request
\* has chained its then/catch on it.
HandlerAttached(id) ==
  \/ id \in reactions
  \/ \E k \in DOMAIN calls : calls[k].pc = "waiting" /\ calls[k].id = id

\* C21: no failed, cancelled or timed-out request terminates the process:
\* whenever the future of a request is rejected, a handler for it is already
\* attached, also when the rejection happens while the tool handler is
\* still waiting for the browser to open.
C21_RejectionHandled ==
  [][\A id \in Ids :
       (promise[id] = Unsettled /\ promise'[id].state = "rejected")
         => HandlerAttached(id)]_vars

\* The runtime eventually runs every timer whose delay has elapsed, the
\* clock advances, listen() and openBrowser(url) eventually call back, and
\* a handler whose awaited promise has an outcome eventually continues.
\* Nothing obliges the user or the browser page to act.
ToolFairSpec ==
  /\ ToolSpec
  /\ WF_vars(TimeoutFires)
  /\ WF_vars(Tick)
  /\ WF_vars(ServerStarted)
  /\ WF_vars(BrowserOpens)
  /\ WF_vars(ToolReturns)

\* C22: every created request eventually reaches exactly one terminal state
\* and is removed from the registry, so every browser-gated tool call that
\* has created its request eventually returns to the agent, even if the
\* browser never fetches or completes the request.
C22_ToolCallReturns ==
  /\ \A id \in Ids : has(id) ~> (~has(id) /\ wins[id] = 1)
  /\ \A k \in Ids :
       (calls[k].pc \in {"opening", "waiting"}) ~> (calls[k].pc = "returned")

\* ====================================================== registry claims II
\* The promise has an outcome an awaiter can observe.
Settled(p) == p.state \in {"fulfilled", "rejected"}

\* C23: removal and resolution are one atomic step: the step that settles
\* the future of a request is the step that removes its entry, so when an
\* awaiter observes the outcome has(id) is already false and size no longer
\* counts the request; no state shows a settled future whose entry is still
\* in the registry, nor a removed entry whose future is unsettled.
C23_RemovedWithOutcome ==
  [][\A id \in Ids :
       /\ (~Settled(promise[id]) /\ Settled(promise'[id]))
            <=> (has(id) /\ ~has(id)')
       /\ (has(id) /\ ~has(id)') => size' = size - 1
       /\ Settled(promise'[id]) => ~has(id)'
       /\ (promise'[id] # NoPromise /\ ~has(id)') => Settled(promise'[id])]_vars

\* One request was just completed, cancelled or timed out while another is
\* still pending: the registry holds the other one only.
C23_Witness ==
  \E id, other \in Ids :
    /\ lastCall.op \in {"complete", "cancel", "timeout"}
    /\ lastCall.id = id /\ lastCall.ret
    /\ Settled(promise[id]) /\ ~has(id)
    /\ has(other) /\ size = 1

\* What the registry and the runtime hold for one id: its entry, its timer
\* handle, the closures armed for it, and its future.
StateOf(p, t, a, ps, id) ==
  [entry |-> IF id \in DOMAIN p THEN << p[id] >> ELSE << >>,
   handle |-> MapGet(t, id),
   timers |-> { << h, a[h] >> : h \in TimersOf(a, id) },
   future |-> ps[id]]

\* C24: operations on different ids are independent: complete, cancel or
\* the timeout firing for one id leaves the entry, the timer and the future
\* of every other id unchanged, and the outcome of each request is the one
\* of the first terminal operation applied to its own id.
C24_OtherIdsUntouched ==
  [][/\ lastCall'.op \in {"complete", "cancel", "timeout"}
          => \A other \in Ids \ {lastCall'.id} :
               StateOf(pending', timeouts', armed', promise', other)
                 = StateOf(pending, timeouts, armed, promise, other)
     /\ \A id \in Ids :
          Settled(promise'[id]) => AgreesWith(promise'[id], firstOp'[id])]_vars

\* A request was just completed, cancelled or timed out while another one
\* is pending with its timer armed and its future unsettled.
C24_Witness ==
  \E id, other \in Ids :
    /\ id # other
    /\ lastCall.op \in {"complete", "cancel", "timeout"}
    /\ lastCall.id = id /\ lastCall.ret
    /\ wins[id] = 1
    /\ other \in DOMAIN pending /\ other \in DOMAIN timeouts
    /\ TimersOf(armed, other) # {}
    /\ promise[other] = Unsettled

\* C25: get, has, size and getPendingIds are pure introspection: a call in
\* any state leaves the pending map, the timer handles and every future
\* unchanged; get returns the stored request or undefined, getPendingIds
\* returns exactly the ids for which has is true, and size is their count.
C25_IntrospectionIsPure ==
  [][lastCall'.op \in IntrospectionOps =>
       /\ UNCHANGED << pending, timeouts, armed, promise, settleCalls >>
       /\ LET present == { id \in AllIds : has(id) }
              id == lastCall'.id
          IN CASE lastCall'.op = "get" ->
                    lastCall'.ret = IF id \in present THEN pending[id].request
                                    ELSE NoRequest
               [] lastCall'.op = "has" -> lastCall'.ret = (id \in present)
               [] lastCall'.op = "getPendingIds" -> lastCall'.ret = present
               [] lastCall'.op = "size" ->
                    lastCall'.ret = Cardinality(present)]_vars

\* get has just returned the request of a pending id whose timer is armed.
C25_Witness ==
  /\ lastCall.op = "get"
  /\ lastCall.id \in DOMAIN pending
  /\ lastCall.ret = pending[lastCall.id].request
  /\ TimersOf(armed, lastCall.id) # {}
  /\ size = 2

\* ======================================================== bridge claims II
\* C26: within the handling of one POST /api/complete/{id} no timeout
\* firing, cancel or other completion runs between the has(id) check and
\* the complete(id, result) call, so the 500 "Failed to complete request"
\* response is never produced.
C26_Never500 ==
  response.req.method # "none" =>
    /\ response.status # 500
    /\ response.body # [error |-> "Failed to complete request"]

\* The completion of request 1 was answered 200 after request 2, created
\* no earlier, had timed out: the post was handled while the timer of
\* request 1 had elapsed and its callback had not run yet.
C26_Witness ==
  /\ response.req.method = "POST"
  /\ response.req.pathname = CompletePath(1)
  /\ response.status = 200
  /\ lastCall = [op |-> "complete", id |-> 1, ret |-> TRUE]
  /\ firstOp[2].op = "timeout"
  /\ Settled(promise[1]) /\ promise[1].state = "fulfilled"

\* The call has gone through ensureServerRunning and holds the port.
HoldsPort(call) ==
  call.pc \in {"opening", "waiting"}
    \/ (call.pc = "returned" /\ call.url # NoUrl)

\* C27: ensureServerRunning starts the HTTP server only if it is not
\* already running: after any number of calls, also calls issued
\* concurrently by parallel tool invocations, exactly one server has been
\* started, no call has failed, and every call that has returned holds the
\* port of that server.
C27_OneServerStarted ==
  (\E k \in Ids : calls[k].pc # "none" /\ calls[k].name \in BrowserTools
                    /\ (calls[k].pc = "returned" => calls[k].url # NoUrl))
    => /\ Cardinality(httpServer.started) = 1
       /\ ~httpServer.uncaught
       /\ \A k \in Ids :
            (calls[k].pc # "none" /\ HoldsPort(calls[k]))
              => /\ httpServer.server \in httpServer.listening
                 /\ calls[k].url.port = httpServer.serverPort

\* C28: a tool call whose arguments fail schema validation, or whose tool
\* name is unknown, returns an isError result without creating a pending
\* request, starting a timer, starting the server or opening a browser;
\* get_balance never creates a pending request either.
C28_RejectedCallsCreateNothing ==
  [][\A k \in Ids :
       (calls[k].pc = "none" /\ calls'[k].pc # "none") =>
         LET c == calls'[k]
             input == [name |-> c.name, args |-> c.args]
         IN /\ input \in RejectedInputs =>
                 /\ c.pc = "returned" /\ c.result.isError
                 /\ c.result.text.lead \in {"Invalid arguments: ",
                                            "Unknown tool: "}
            /\ (input \in RejectedInputs \/ c.name = "get_balance") =>
                 /\ c.pc = "returned"
                 /\ c.id = NonExistentId /\ c.url = NoUrl
                 /\ UNCHANGED << pending, timeouts, armed, nextTimer,
                                 promise, httpServer >>]_vars

\* A send_transaction call without `to` and a get_balance call have
\* returned while the request of a valid connect_wallet call is pending.
C28_Witness ==
  \E a, b \in Ids :
    /\ calls[a].pc = "returned" /\ calls[a].name = "send_transaction"
    /\ calls[a].result.isError
    /\ calls[b].pc \in {"opening", "waiting"}
    /\ DOMAIN pending = {calls[b].id}
    /\ Cardinality({ id \in Ids : promise[id] # NoPromise }) = 1

\* C29: in every browser-gated tool call the pending request is registered,
\* and the HTTP server running, before the browser URL carrying its id is
\* opened: once openBrowser(url) has been called, the URL names the port of
\* the listening server and the id of a created request, and a
\* GET /api/pending/{id} for the id in the URL is answered 404 only if the
\* request has reached a terminal state.
C29_RegisteredBeforeOpened ==
  Alive =>
    \A k \in Ids :
      (calls[k].pc \in {"opening", "waiting"}) =>
        /\ httpServer.server \in httpServer.listening
        /\ calls[k].url.port = httpServer.serverPort
        /\ calls[k].url.id = calls[k].id
        /\ promise[calls[k].url.id] # NoPromise
        /\ LET answer == GetPending(calls[k].url.id).response
           IN IF Settled(promise[calls[k].url.id])
              THEN answer.status = 404
              ELSE /\ answer.status = 200
                   /\ answer.body.request.id = calls[k].url.id

\* The browser has been opened for two calls: the request of one has timed
\* out, so its page is answered 404; the request of the other is pending, so
\* its page is sent the request.
C29_Witness ==
  /\ Alive
  /\ \E a, b \in Ids :
       /\ calls[a].pc = "waiting" /\ calls[b].pc = "opening"
       /\ promise[calls[a].id] = Rejected(TimeoutMessage)
       /\ GetPending(calls[a].url.id).response.status = 404
       /\ GetPending(calls[b].url.id).response.status = 200

\* ============================================================ browser page
\* web/src: App.svelte loads the request named in the URL; the component
\* ConnectWallet.svelte drives the wallet and posts the outcome.  The sign
\* components (handleSign / handleReject) have the same shape.

\* The address the wallet returns and the message of a wallet failure.
WalletAddress == "0x1234"
WalletError == "User rejected"

\* api.ts completeRequest: body: JSON.stringify(result)
StringifyCompletion(result) ==
  IF result.success
  THEN CASE result.result = "0x1234" -> SuccessBody
  ELSE CASE result.error = "User rejected" -> FailureBody
         [] result.error = "User cancelled" -> CancelledBody
         [] result.error = "Request not found" -> NotFoundReportBody

\* The page showing a request: the status of the component, the id of the
\* request, the completions posted so far (0, 1, or 2 for more than one),
\* the error message shown, and the message of the completeError that the
\* catch clause has called and the bridge has not handled yet ("": none).
Page(status, id, posts, errorMessage, report) ==
  [status |-> status, id |-> id, posts |-> posts,
   errorMessage |-> errorMessage, report |-> report]

CountPost(n) == IF n < 2 THEN n + 1 ELSE n

\* response.ok
Ok(resp) == resp.status >= 200 /\ resp.status <= 299

\* api.ts completeRequest(id, result), from fetch to the response
completeRequest(id, result) ==
  HttpExchange("POST", CompletePath(id), StringifyCompletion(result))

\* App.svelte onMount: fetchPendingRequest(requestId), then the component
\* of the request or the not-found page.
PageLoads ==
  /\ page = NoPage
  /\ \E id \in Ids :
       /\ HttpExchange("GET", PendingPath(id), "")
       /\ page' = IF Ok(response')
                  THEN Page("idle", response'.body.request.id, 0, "", "")
                  ELSE [status |-> "not_found"]

\* The buttons the component renders in each status: Cancel and Connect
\* unless the status is success; Connect is disabled while connecting or
\* switching chains, and reads Try Again after an error.
ConnectEnabled == page.status \in {"idle", "error"}
CancelShown == page.status \in {"idle", "connecting", "error"}

\* handleConnect up to `await connectWallet()`
ClickConnect ==
  /\ ConnectEnabled
  /\ page' = [page EXCEPT !.status = "connecting", !.errorMessage = ""]
  /\ UNCHANGED << pending, timeouts, armed, nextTimer, promise, settleCalls,
                  firstOp, wins, lastCall, now, response, testResults,
                  reactions, calls, crashed, httpServer >>

\* A page that does not look at response.ok: completeRequest never throws.
WalletApproves_ignoresOk ==
  /\ page.status = "connecting"
  /\ completeRequest(page.id, SuccessResult(WalletAddress))
  /\ page' = [page EXCEPT !.status = "success", !.posts = CountPost(@)]

\* handleConnect after the wallet has returned the address (and switched
\* chains where asked): `await completeSuccess(request.id, address)`; a
\* response that is not ok makes completeRequest throw into the catch
\* clause, which sets the error status and goes on to completeError.
WalletApproves ==
  /\ page.status = "connecting"
  /\ completeRequest(page.id, SuccessResult(WalletAddress))
  /\ page' = IF Ok(response')
             THEN [page EXCEPT !.status = "success",
                               !.posts = CountPost(@)]
             ELSE [page EXCEPT !.status = "error",
                               !.posts = CountPost(@),
                               !.errorMessage = response'.body.error,
                               !.report = response'.body.error]

\* handleConnect when the wallet call throws: the catch clause sets the
\* error status and sends completeError(request.id, errorMessage).
WalletFails ==
  /\ page.status = "connecting"
  /\ completeRequest(page.id, ErrorResult(WalletError))
  /\ page' = [page EXCEPT !.status = "error", !.posts = CountPost(@),
                          !.errorMessage = WalletError]

\* The completeError of the catch clause after completeSuccess threw; its
\* own failure is swallowed by .catch(() => {}).
ReportsError ==
  /\ page.status \in {"error", "connecting", "success"}
  /\ page.report # ""
  /\ completeRequest(page.id, ErrorResult(page.report))
  /\ page' = [page EXCEPT !.posts = CountPost(@), !.report = ""]

\* handleCancel: completeError(request.id, "User cancelled") and
\* window.close(), which closes the window only if the browser lets a
\* script close it.
ClickCancel ==
  /\ CancelShown
  /\ completeRequest(page.id, ErrorResult("User cancelled"))
  /\ \E closes \in BOOLEAN :
       page' = IF closes
               THEN [page EXCEPT !.status = "gone", !.posts = CountPost(@),
                                 !.report = ""]
               ELSE [page EXCEPT !.posts = CountPost(@)]

\* One page opened on the URL of a connect request, the user and the wallet
\* acting on it, while requests are created and time out.
BrowserNext ==
  \/ CreateConnectRequest
  \/ PageLoads
  \/ ClickConnect
  \/ WalletApproves
  \/ WalletFails
  \/ ReportsError
  \/ ClickCancel
  \/ TimeoutFires
  \/ Tick

BrowserSpec == Init /\ [][BrowserNext]_vars

\* C30: for every request it loads, the browser page posts exactly one
\* completion to /api/complete/{id}, over every sequence of user actions
\* (approve, wallet failure followed by Try Again, Cancel pressed while an
\* approval is in flight): never more than one, and one once the page has
\* reached success or has been closed by Cancel.
C30_PostsOneCompletion ==
  page.status \notin {"closed", "not_found"} =>
    /\ page.posts <= 1
    /\ page.status \in {"success", "gone"} => page.posts = 1

\* C31: the browser page enters its success state only in the step in which
\* the bridge answers its success completion with 200, and as long as the
\* page shows success the future of its request is fulfilled with Success
\* carrying the value shown; the page never shows success for a request
\* whose future ended in failure, cancellation or timeout.
C31_SuccessMeansResolved ==
  [][ page'.status = "success" =>
        /\ promise'[page'.id] = Fulfilled(SuccessResult(WalletAddress))
        /\ page.status # "success" =>
             /\ response'.status = 200
             /\ response'.req.method = "POST"
             /\ response'.req.pathname = CompletePath(page.id)
             /\ lastCall' = [op |-> "complete", id |-> page.id, ret |-> TRUE]
    ]_vars

\* The page shows success after an approval that the bridge answered 200.
C31_Witness ==
  /\ page.status = "success"
  /\ promise[page.id] = Fulfilled(SuccessResult(WalletAddress))
  /\ response.status = 200

\* The result the posted object stands for: the result of a success body, ""
\* when it is missing or empty; the error of a failure body, "Unknown error"
\* when it is missing or empty; no other field.
NormalizedResult(o) ==
  IF o.success.v
  THEN SuccessResult(IF "result" \in DOMAIN o /\ o.result.v # ""
                     THEN o.result.v ELSE "")
  ELSE ErrorResult(IF "error" \in DOMAIN o /\ o.error.v # ""
                   THEN o.error.v ELSE "Unknown error")

\* C32: POST /api/complete/{id} normalizes the body before completing: with
\* success true and a missing or empty result the future resolves to Success
\* with result ""; with success false and a missing or empty error it
\* resolves to Failure with error "Unknown error"; the error field of a
\* success body and the result field of a failure body are discarded.
C32_BodyNormalized ==
  ( /\ response.req.method = "POST"
    /\ response.status = 200 ) =>
      promise[response.req.pathname.rest] =
        Fulfilled(NormalizedResult(JSONparse(response.req.raw).v))

\* A success body without result and with an error field has resolved a
\* future to Success with result "", and a failure body without error and
\* with a result field has resolved another to Failure "Unknown error".
C32_Witness ==
  /\ response.req.method = "POST"
  /\ response.status = 200
  /\ response.req.raw = ResultOnlyFailureBody
  /\ promise[response.req.pathname.rest] =
       Fulfilled(ErrorResult("Unknown error"))
  /\ \E id \in Ids : promise[id] = Fulfilled(SuccessResult(""))

\* C33: after every registry operation and every timeout firing, the set of
\* ids with a timer handle equals the set of ids with a pending entry, and
\* the handles kept are exactly the timers the runtime has armed: no timer
\* handle outlives its entry and no pending entry is without a timer.
C33_TimersMatchEntries ==
  /\ DOMAIN timeouts = DOMAIN pending
  /\ { timeouts[id] : id \in DOMAIN timeouts } = DOMAIN armed
  /\ \A id \in DOMAIN timeouts : armed[timeouts[id]].id = id

\* One request is pending with its timer armed after another was completed
\* and left neither an entry nor a handle.
C33_Witness ==
  /\ \E id \in DOMAIN pending : timeouts[id] \in DOMAIN armed
  /\ \E id \in Ids :
       /\ firstOp[id].op = "complete"
       /\ id \notin DOMAIN pending
       /\ id \notin DOMAIN timeouts

\* ============================================================ static files
\* http-server.ts serveStaticFile.  A path is the sequence of its pieces:
\* "/" and "." each stand alone, every other piece is a run of characters
\* with neither of the two ("/assets/app.js" is << "/", "assets", "/", "app",
\* ".", "js" >>), so the two replace calls and includes(".") act on pieces
\* as they act on characters.
IndexHtml == << "index", ".", "html" >>

\* .replace(/^\/+/, "")
RECURSIVE StripLeadingSlashes(_)
StripLeadingSlashes(p) ==
  IF p # << >> /\ Head(p) = "/" THEN StripLeadingSlashes(Tail(p)) ELSE p

\* .replace(/\.\./g, ""): one pass from the left over the matches that do
\* not overlap; what is left is not searched again.
RECURSIVE RemoveDotDot(_)
RemoveDotDot(p) ==
  IF p = << >> THEN << >>
  ELSE IF Len(p) >= 2 /\ p[1] = "." /\ p[2] = "."
  THEN RemoveDotDot(SubSeq(p, 3, Len(p)))
  ELSE << Head(p) >> \o RemoveDotDot(Tail(p))

\* filePath after the first two statements of serveStaticFile
sanitize(path) ==
  LET filePath == IF path = << "/" >> \/ path = << >>
                  THEN << "/" >> \o IndexHtml ELSE path
  IN RemoveDotDot(StripLeadingSlashes(filePath))

\* filePath.includes(".")
includesDot(p) == \E i \in 1..Len(p) : p[i] = "."

\* The pieces of p up to its first "/" and what follows that "/".
RECURSIVE FirstSegment(_)
FirstSegment(p) ==
  IF p = << >> \/ Head(p) = "/" THEN << >>
  ELSE << Head(p) >> \o FirstSegment(Tail(p))

RECURSIVE Segments(_)
Segments(p) ==
  LET s == FirstSegment(p)
  IN IF Len(s) = Len(p) THEN << s >>
     ELSE << s >> \o Segments(SubSeq(p, Len(s) + 2, Len(p)))

\* The file the operating system opens for `${webDistPath}/${filePath}`,
\* as its segments below webDistPath: empty segments (doubled slashes) and
\* "." segments name the directory they are in.  A name that ends in "/"
\* opens a directory, never a file.
Resolve(filePath) ==
  LET segs == Segments(filePath)
  IN IF filePath # << >> /\ filePath[Len(filePath)] = "/"
     THEN << >>
     ELSE SelectSeq(segs, LAMBDA s : s # << >> /\ s # << "." >>)

\* readFile(`${webDistPath}/${filePath}`) returns instead of throwing
readFile(filePath, files) == Resolve(filePath) \in files

\* The asset directory after the web build, and before it.
BuiltDist == { << IndexHtml >>, << << "assets" >>, << "app", ".", "js" >> >> }
NoDist == {}

\* getContentType(path): the piece after the last "." looked up in types
ContentTypes ==
  [html |-> "text/html", js |-> "application/javascript",
   mjs |-> "application/javascript", css |-> "text/css",
   json |-> "application/json", png |-> "image/png", jpg |-> "image/jpeg",
   jpeg |-> "image/jpeg", svg |-> "image/svg+xml", ico |-> "image/x-icon",
   woff |-> "font/woff", woff2 |-> "font/woff2", ttf |-> "font/ttf"]

RECURSIVE AfterLastDot(_)
AfterLastDot(p) ==
  IF ~includesDot(p) THEN p ELSE AfterLastDot(Tail(p))

getContentType(path) ==
  LET ext == AfterLastDot(path)
  IN IF Len(ext) = 1 /\ ext[1] \in DOMAIN ContentTypes
     THEN ContentTypes[ext[1]] ELSE "application/octet-stream"

FileHeaders(contentType) ==
  ("Content-Type" :> contentType) @@ ("Cache-Control" :> "no-cache")
TextHeaders == ("Content-Type" :> "text/plain;charset=UTF-8")

\* serveStaticFile(path, webDistPath): the response, and the filePath it
\* read first.
serveStaticFile(path, files) ==
  LET filePath == sanitize(path)
  IN [read |-> filePath,
      response |->
        IF readFile(filePath, files)
        THEN Response(200, [file |-> Resolve(filePath)],
                      FileHeaders(getContentType(filePath)))
        ELSE IF ~includesDot(filePath)
        THEN IF readFile(IndexHtml, files)
             THEN Response(200, [file |-> Resolve(IndexHtml)],
                           FileHeaders("text/html"))
             ELSE Response(404,
                    [text |-> "Web UI not found. Run 'deno task build:web' first."],
                    TextHeaders)
        ELSE Response(404, [text |-> "Not found"], TextHeaders)]

\* pathname.startsWith("/api/")
startsWithApi(p) ==
  Len(p) >= 3 /\ p[1] = "/" /\ p[2] = "api" /\ p[3] = "/"

\* url.pathname begins with "/" and has no segment "." or ".." (the URL
\* parser resolves them); a segment of three or more dots is kept.
IsPathname(p) ==
  /\ p # << >>
  /\ Head(p) = "/"
  /\ \A i \in 1..Len(Segments(p)) :
       Segments(p)[i] \notin { << "." >>, << ".", "." >> }

\* The request paths of a run outside /api/: the entry document, assets that
\* exist and that do not, routes of the page, a directory, and paths with
\* runs of dots.
StaticPaths ==
  { p \in { << "/" >>,
            << "/", "index", ".", "html" >>,
            << "/", "assets", "/", "app", ".", "js" >>,
            << "/", "assets", "/", "missing", ".", "js" >>,
            << "/", "favicon", ".", "ico" >>,
            << "/", "connect", "/", "1" >>,
            << "/", "assets" >>,
            << "/", "api" >>,
            << "/", "index", ".", "html", "/" >>,
            << "/", ".", ".", ".", "/", "index", ".", "html" >>,
            << "/", ".", ".", "index", ".", "html" >>,
            << "/", "logo", ".", ".", "png" >>,
            << "/", ".", ".", ".", ".", "/", "etc", "/", "passwd" >>,
            << "/", ".", ".", "/", "etc", "/", "passwd" >>,
            << "/", "api", "/", "health" >> } :
      IsPathname(p) /\ ~startsWithApi(p) }

\* makeHandler for one request outside /api/, from its arrival to the
\* response written; `files` is the asset directory at that time.
StaticExchange(method, path, files) ==
  /\ ~startsWithApi(path)
  /\ LET r == serveStaticFile(path, files)
     IN response' = [req |-> [method |-> method, pathname |-> path,
                              raw |-> "", dist |-> files],
                     threw |-> FALSE,
                     status |-> r.response.status,
                     body |-> r.response.body,
                     headers |-> r.response.headers,
                     read |-> r.read]
  /\ UNCHANGED << pending, timeouts, armed, nextTimer, promise, settleCalls,
                  firstOp, wins, lastCall, now, testResults, reactions,
                  calls, crashed, httpServer, page >>

StaticRequest ==
  \E method \in {"GET", "POST"}, path \in StaticPaths,
     files \in {BuiltDist, NoDist} :
    StaticExchange(method, path, files)

\* The bridge serving files while requests are created, completed and time
\* out.
StaticNext ==
  \/ StaticRequest
  \/ CreateConnectRequest
  \/ Complete
  \/ TimeoutFires
  \/ Tick

StaticSpec == Init /\ [][StaticNext]_vars

\* The asset a request path names: the entry document for "/", else the
\* file of that name below the asset directory.
RequestedAsset(path) ==
  IF path = << "/" >> THEN << IndexHtml >> ELSE Resolve(path)

\* The step serves the static request that response' records.
StaticServed ==
  /\ response'.req.method # "none"
  /\ StaticExchange(response'.req.method, response'.req.pathname,
                    response'.req.dist)

\* C34: for a path outside /api the bridge serves the matching asset when it
\* exists; when it does not exist, a path without a "." gets the entry
\* document index.html and a path containing a "." gets 404 (the asset
\* directory being built, so that index.html exists); none of these cases
\* touches the registry.
C34_ServesStaticFiles ==
  [][ StaticServed =>
        /\ UNCHANGED << pending, timeouts, armed, promise, testResults >>
        /\ << IndexHtml >> \in response'.req.dist =>
             LET path == response'.req.pathname
                 asset == RequestedAsset(path)
             IN IF asset \in response'.req.dist
                THEN /\ response'.status = 200
                     /\ response'.body = [file |-> asset]
                ELSE IF ~includesDot(path)
                THEN /\ response'.status = 200
                     /\ response'.body = [file |-> << IndexHtml >>]
                ELSE response'.status = 404
    ]_vars

\* C35: for every request path, the file path that serveStaticFile reads
\* after sanitizing contains no ".." sequence and no leading "/".
C35_SanitizedPathInside ==
  response.req.method # "none" =>
    LET filePath == response.read
    IN /\ \A i \in 1..(Len(filePath) - 1) :
            ~(filePath[i] = "." /\ filePath[i + 1] = ".")
       /\ filePath = << >> \/ Head(filePath) # "/"

\* ================================================================ getPort
\* The values of EVM_MCP_PORT in a run: unset, every text of up to
\* MaxEnvLen of the characters below, and the texts around the limits.
EnvChars == {"0", "1", "9", "-", " ", "a"}
EnvTexts ==
  UNION { [1..n -> EnvChars] : n \in 0..MaxEnvLen }
  \cup { << "3", "8", "4", "7" >>, << "8", "0", "8", "0" >>,
         << "6", "5", "5", "3", "5" >>, << "6", "5", "5", "3", "6" >>,
         << "6", "5", "5", "3", "5", ".", "9" >>,
         << "7", "0", "0", "0", "0", "0" >>, << "+", "4", "4", "3" >>,
         << "8", "0", "8", "0", "a", "b", "c" >>, << "0", "x", "5", "0" >>,
         << "1", "2", ".", "7" >>, << "-", "8", "0", "8", "0" >> }
EnvValues == {UnsetEnv} \cup { SetEnv(text) : text \in EnvTexts }

\* One call of getPort() in a process started with EVM_MCP_PORT = envPort.
GetPortCalled ==
  /\ \E envPort \in EnvValues :
       lastCall' = [op |-> "getPort", env |-> envPort,
                    ret |-> getPortFrom(envPort)]
  /\ UNCHANGED << pending, timeouts, armed, nextTimer, promise, settleCalls,
                  firstOp, wins, now, response, testResults, reactions,
                  calls, crashed, httpServer, page >>

PortNext == GetPortCalled

PortSpec == Init /\ [][PortNext]_vars

\* C36: getPort returns the value of EVM_MCP_PORT when it parses to an
\* integer strictly between 0 and 65536 and the default 3847 in every other
\* case (unset, non-numeric, zero, negative, 65536 or above), so its result
\* is always a valid port number.
C36_PortIsValid ==
  lastCall.op = "getPort" =>
    LET envPort == lastCall.env
        parsed == IF envPort.set THEN parseInt(envPort.text)
                  ELSE [isNaN |-> TRUE, value |-> 0]
        inRange == ~parsed.isNaN /\ 0 < parsed.value /\ parsed.value < 65536
    IN /\ inRange => lastCall.ret = parsed.value
       /\ ~inRange => lastCall.ret = 3847
       /\ lastCall.ret \in 1..65535

\* getPort has returned 65535 for the text "65535", and the largest port is
\* not the default.
C36_Witness ==
  /\ lastCall.op = "getPort"
  /\ lastCall.env = SetEnv(<< "6", "5", "5", "3", "5" >>)
  /\ lastCall.ret = 65535
  /\ lastCall.ret # DEFAULT_PORT

\* C37: for an id created through POST /api/test/create-request,
\* GET /api/test/result/{id} never answers 404: it reports pending:true
\* while the entry is in the registry and the recorded outcome of the
\* request's future afterwards, because the outcome is recorded before any
\* later request is handled.
C37_ResultNever404 ==
  [][ ( /\ Exchanged
        /\ response'.req.method = "GET"
        /\ response'.req.pathname.prefix = "/api/test/result/"
        /\ response'.req.pathname.rest \in Ids
        /\ promise[response'.req.pathname.rest] # NoPromise )
      => LET id == response'.req.pathname.rest
         IN /\ response'.status = 200
            /\ response'.body = IF has(id) THEN [pending |-> TRUE]
                                ELSE RecordedOutcome(promise[id])
    ]_vars

\* GET /api/test/result/{id} has returned the outcome of a request that
\* timed out.
C37_Witness ==
  /\ response.req.method = "GET"
  /\ response.req.pathname.prefix = "/api/test/result/"
  /\ response.req.pathname.rest \in Ids
  /\ response.status = 200
  /\ promise[response.req.pathname.rest] = Rejected(TimeoutMessage)
  /\ response.body = ErrorResult(TimeoutMessage)

====
